---- MODULE Spec2Model ----
(***************************************************************************)
(* A model of the XMPP channel adapter's inbound pipeline: JID             *)
(* normalisation (normalize.ts), the policy engine (policy.ts), the        *)
(* monitor (monitor.ts) and handleXmppInbound (inbound.ts).                *)
(*                                                                         *)
(* Strings are sequences of one-character strings, so that trimming,       *)
(* lower-casing, prefix stripping and JID parsing are computed as the      *)
(* code computes them.                                                     *)
(***************************************************************************)
EXTENDS Integers, Sequences, FiniteSets, TLC

(***************************************************************************)
(* Strings                                                                 *)
(***************************************************************************)
UpperSeq ==
  <<"A","B","C","D","E","F","G","H","I","J","K","L","M",
    "N","O","P","Q","R","S","T","U","V","W","X","Y","Z">>

LowerSeq ==
  <<"a","b","c","d","e","f","g","h","i","j","k","l","m",
    "n","o","p","q","r","s","t","u","v","w","x","y","z">>

Range(s) == {s[i] : i \in DOMAIN s}

Digits == {"0","1","2","3","4","5","6","7","8","9"}

\* String.prototype.toLowerCase, one character
LowerOf ==
  [c \in Range(UpperSeq) |->
     LowerSeq[CHOOSE i \in DOMAIN UpperSeq : UpperSeq[i] = c]]

ToLowerChar(c) == IF c \in DOMAIN LowerOf THEN LowerOf[c] ELSE c

\* String.prototype.toLowerCase
ToLower(s) == [i \in 1..Len(s) |-> ToLowerChar(s[i])]

IsSpace(c) == c = " "

\* String.prototype.trim
Trim(s) ==
  LET idx == {i \in 1..Len(s) : ~IsSpace(s[i])}
  IN  IF idx = {} THEN <<>>
      ELSE SubSeq(s, CHOOSE i \in idx : \A j \in idx : i <= j,
                     CHOOSE i \in idx : \A j \in idx : j <= i)

\* String.prototype.startsWith
StartsWith(s, p) == Len(p) <= Len(s) /\ SubSeq(s, 1, Len(p)) = p

\* String.prototype.slice(n) for 0 <= n
SliceFrom(s, n) == SubSeq(s, n + 1, Len(s))

\* String.prototype.indexOf for a one-character needle, 1-based; 0 when absent
IndexOf(s, c) ==
  LET idx == {i \in 1..Len(s) : s[i] = c}
  IN  IF idx = {} THEN 0 ELSE CHOOSE i \in idx : \A j \in idx : i <= j

\* String.prototype.includes for a one-character needle
Includes(s, c) == IndexOf(s, c) # 0

\* String.prototype.includes for a needle of any length
IncludesText(s, needle) ==
  \E i \in 1..(Len(s) - Len(needle) + 1) : SubSeq(s, i, i + Len(needle) - 1) = needle

\* String.prototype.split("/"), as the sequence of segments
RECURSIVE SplitSlash(_)
SplitSlash(s) ==
  LET k == IndexOf(s, "/")
  IN  IF k = 0 THEN <<s>>
      ELSE <<SubSeq(s, 1, k - 1)>> \o SplitSlash(SliceFrom(s, k))

\* Array.prototype.map
Map(Op(_), s) == [i \in 1..Len(s) |-> Op(s[i])]

\* Array.prototype.filter(Boolean) over strings: drops the empty ones
NonEmpty(s) == s # <<>>
FilterBoolean(s) == SelectSeq(s, NonEmpty)

(***************************************************************************)
(* @xmpp/jid, as normalize.ts uses it                                      *)
(***************************************************************************)
\* escaping of a local part (XEP-0106): applied when the local part holds a
\* character that needs it; of those, strings here hold " " and ":"
NeedsEscape(local) == \E i \in DOMAIN local : local[i] \in {" ", ":"}

RECURSIVE EscapeChars(_)
EscapeChars(s) ==
  IF s = <<>> THEN <<>>
  ELSE (CASE Head(s) = " " -> <<"\\", "2", "0">>
          [] Head(s) = ":" -> <<"\\", "3", "a">>
          [] OTHER -> <<Head(s)>>) \o EscapeChars(Tail(s))

EscapeLocal(local) == IF NeedsEscape(local) THEN EscapeChars(Trim(local)) ELSE local

\* the text up to the first c, and the text after it (absent: no c)
SplitFirst(s, c) ==
  LET k == IndexOf(s, c)
  IN  [found |-> k # 0,
       before |-> IF k = 0 THEN s ELSE SubSeq(s, 1, k - 1),
       after |-> IF k = 0 THEN <<>> ELSE SliceFrom(s, k)]

\* new JID(local, domain, resource): local part and domain are lower-cased;
\* an empty domain throws (ok = FALSE)
NewJid(local, domain, resource) ==
  [ok |-> domain # <<>>,
   local |-> ToLower(EscapeLocal(local)),
   domain |-> ToLower(domain),
   resource |-> resource]

\* the local part ends at the first "@" of the text before the resource
ParseAddress(address, resource) ==
  IF address.found THEN NewJid(address.before, address.after, resource)
  ELSE NewJid(<<>>, address.before, resource)

ParseResource(split) == ParseAddress(SplitFirst(split.before, "@"), split.after)

\* jid(s): the resource follows the first "/"
parseJid(s) == ParseResource(SplitFirst(s, "/"))

\* JID.bare().toString()
BareString(j) == IF j.local = <<>> THEN j.domain ELSE j.local \o <<"@">> \o j.domain

(***************************************************************************)
(* normalize.ts                                                            *)
(***************************************************************************)
PrefixXmpp == <<"x","m","p","p",":">>
PrefixUser == <<"u","s","e","r",":">>
PrefixRoom == <<"r","o","o","m",":">>
Star == <<"*">>

Conference == <<"c","o","n","f","e","r","e","n","c","e">>
Muc == <<"m","u","c">>

IsRoomDomain(j) ==
  j.ok /\ (IncludesText(ToLower(j.domain), Conference) \/ IncludesText(ToLower(j.domain), Muc))

\* a parse failure is caught and answered false
isRoomJid(jidString) == IsRoomDomain(parseJid(jidString))

BareOr(parsed, jidString) ==
  IF parsed.ok THEN BareString(parsed) ELSE Trim(jidString)

normalizeXmppBareJid(jidString) == BareOr(parseJid(jidString), jidString)

\* if (value.startsWith(prefix)) value = value.slice(prefix.length)
StripPrefix(value, prefix) ==
  IF StartsWith(value, prefix) THEN SliceFrom(value, Len(prefix)) ELSE value

\* parseJid(value).bare().toString().toLowerCase(), the value itself when
\* the parse throws
BareLowerOr(parsed, value) ==
  IF parsed.ok THEN ToLower(BareString(parsed)) ELSE value

NormalizeStripped(value) ==
  IF value # <<>> /\ value # Star THEN BareLowerOr(parseJid(value), value) ELSE value

\* normalizeXmppAllowEntry with the first matching prefix alone removed
NormalizeLoweredOnePrefix(value) ==
  IF value = <<>> THEN <<>>
  ELSE NormalizeStripped(
         Trim(IF StartsWith(value, PrefixXmpp) THEN StripPrefix(value, PrefixXmpp)
              ELSE IF StartsWith(value, PrefixUser) THEN StripPrefix(value, PrefixUser)
              ELSE StripPrefix(value, PrefixRoom)))

NormalizeLowered(value) ==
  IF value = <<>> THEN <<>>
  ELSE NormalizeStripped(
         Trim(StripPrefix(StripPrefix(StripPrefix(value, PrefixXmpp),
                                      PrefixUser), PrefixRoom)))

normalizeXmppAllowEntry(raw) == NormalizeLowered(ToLower(Trim(raw)))

normalizeXmppAllowlist(entries) == FilterBoolean(Map(normalizeXmppAllowEntry, entries))

\* XMPP_TARGET_PATTERN, /^[^\s]+@[^\s]+$/u: no white space, and an "@" with
\* at least one character on each side
MatchesTargetPattern(s) ==
  /\ \A i \in DOMAIN s : ~IsSpace(s[i])
  /\ \E k \in 2..(Len(s) - 1) : s[k] = "@"

\* the pattern matches and the parse does not throw
LooksLikeTrimmed(trimmed) ==
  trimmed # <<>> /\ MatchesTargetPattern(trimmed) /\ parseJid(trimmed).ok

looksLikeXmppJid(raw) == LooksLikeTrimmed(Trim(raw))

\* if (lowered.startsWith(prefix)) target = target.slice(prefix.length).trim():
\* the test reads the lower-cased input, the slice cuts the current target
StripTargetPrefix(target, lowered, prefix) ==
  IF StartsWith(lowered, prefix) THEN Trim(SliceFrom(target, Len(prefix))) ELSE target

StripTargetPrefixes(trimmed, lowered) ==
  StripTargetPrefix(StripTargetPrefix(StripTargetPrefix(trimmed, lowered, PrefixXmpp), lowered, PrefixRoom), lowered, PrefixUser)

\* the bare JID of the stripped target; undefined is the empty string
BareJidOfTarget(target) ==
  IF target # <<>> /\ looksLikeXmppJid(target) /\ parseJid(target).ok
  THEN BareString(parseJid(target))
  ELSE <<>>

NormalizeTrimmed(trimmed) ==
  IF trimmed = <<>> THEN <<>>
  ELSE BareJidOfTarget(StripTargetPrefixes(trimmed, ToLower(trimmed)))

normalizeXmppJid(raw) == NormalizeTrimmed(Trim(raw))

normalizeXmppMessagingTarget(raw) == normalizeXmppJid(raw)

\* the candidates of one inbound message: bare JID, full JID and, in a room,
\* the nickname, lower-cased
buildXmppAllowlistCandidates(message) ==
  (IF message.senderBareJid # <<>> THEN {ToLower(message.senderBareJid)} ELSE {})
  \cup (IF message.senderJid # <<>> THEN {ToLower(message.senderJid)} ELSE {})
  \cup (IF message.isGroup /\ message.senderNickname # <<>>
        THEN {ToLower(message.senderNickname)} ELSE {})

TrimLower(entry) == ToLower(Trim(entry))

\* resolveXmppAllowlistMatch(...).allowed
resolveXmppAllowlistMatch(allowFrom, message) ==
  LET entries == Range(FilterBoolean(Map(TrimLower, allowFrom)))
  IN  \/ Star \in entries
      \/ \E candidate \in buildXmppAllowlistCandidates(message) : candidate \in entries

(***************************************************************************)
(* policy.ts                                                               *)
(***************************************************************************)
\* A room configuration; "unset" stands for an absent (undefined) field, and
\* an absent allowFrom is the empty list (normalizeXmppAllowlist(undefined))
NoRoomConfig == [requireMention |-> "unset", enabled |-> "unset", allowFrom |-> <<>>]

\* rooms is the object's entries in key order: <<[key, config], ...>>
RoomIndex(rooms, key) ==
  LET idx == {i \in DOMAIN rooms : rooms[i].key = key}
  IN  IF idx = {} THEN 0 ELSE CHOOSE i \in idx : \A j \in idx : i <= j

\* Object.keys(rooms).find(key => key.toLowerCase() === targetLower)
RoomIndexIgnoreCase(rooms, targetLower) ==
  LET idx == {i \in DOMAIN rooms : ToLower(rooms[i].key) = targetLower}
  IN  IF idx = {} THEN 0 ELSE CHOOSE i \in idx : \A j \in idx : i <= j

\* resolveXmppRoomMatch that looks for a key equal ignoring case at once,
\* without the exact key first
ResolveRoomMatchIgnoringCase(rooms, target) ==
  LET directKey == RoomIndexIgnoreCase(rooms, ToLower(target))
      wildcard  == RoomIndex(rooms, Star)
  IN  [allowed |-> directKey # 0 \/ wildcard # 0,
       hasRoomConfig |-> directKey # 0,
       roomConfig |-> IF directKey # 0 THEN rooms[directKey].config ELSE NoRoomConfig,
       hasWildcardConfig |-> wildcard # 0,
       wildcardConfig |-> IF wildcard # 0 THEN rooms[wildcard].config ELSE NoRoomConfig,
       hasConfiguredRooms |-> Len(rooms) > 0]

resolveXmppRoomMatch(rooms, target) ==
  LET direct    == RoomIndex(rooms, target)
      directKey == RoomIndexIgnoreCase(rooms, ToLower(target))
      wildcard  == RoomIndex(rooms, Star)
      hasConfiguredRooms == Len(rooms) > 0
      found(i)  == [allowed |-> TRUE,
                    hasRoomConfig |-> TRUE, roomConfig |-> rooms[i].config,
                    hasWildcardConfig |-> wildcard # 0,
                    wildcardConfig |-> IF wildcard # 0 THEN rooms[wildcard].config
                                       ELSE NoRoomConfig,
                    hasConfiguredRooms |-> hasConfiguredRooms]
  IN  IF direct # 0 THEN found(direct)
      ELSE IF directKey # 0 THEN found(directKey)
      ELSE IF wildcard # 0
           THEN [allowed |-> TRUE,
                 hasRoomConfig |-> FALSE, roomConfig |-> NoRoomConfig,
                 hasWildcardConfig |-> TRUE, wildcardConfig |-> rooms[wildcard].config,
                 hasConfiguredRooms |-> hasConfiguredRooms]
           ELSE [allowed |-> FALSE,
                 hasRoomConfig |-> FALSE, roomConfig |-> NoRoomConfig,
                 hasWildcardConfig |-> FALSE, wildcardConfig |-> NoRoomConfig,
                 hasConfiguredRooms |-> hasConfiguredRooms]

\* the access gate without the answer for an allowlist with no rooms at all
GroupAccessGateNoRoomsBranch(policy, roomMatch) ==
      IF policy = "disabled"
      THEN [allowed |-> FALSE, reason |-> "groupPolicy=disabled"]
      ELSE IF policy = "allowlist" /\ ~roomMatch.allowed
      THEN [allowed |-> FALSE, reason |-> "not allowlisted"]
      ELSE IF roomMatch.roomConfig.enabled = "false"
              \/ roomMatch.wildcardConfig.enabled = "false"
      THEN [allowed |-> FALSE, reason |-> "disabled"]
      ELSE [allowed |-> TRUE,
            reason |-> IF policy = "open" THEN "open" ELSE "allowlisted"]

\* the access gate with the wildcard's enabled=false left unread
GroupAccessGateRoomEnabledOnly(policy, roomMatch) ==
      IF policy = "disabled"
      THEN [allowed |-> FALSE, reason |-> "groupPolicy=disabled"]
      ELSE IF policy = "allowlist" /\ ~roomMatch.hasConfiguredRooms
      THEN [allowed |-> FALSE, reason |-> "groupPolicy=allowlist and no rooms configured"]
      ELSE IF policy = "allowlist" /\ ~roomMatch.allowed
      THEN [allowed |-> FALSE, reason |-> "not allowlisted"]
      ELSE IF roomMatch.roomConfig.enabled = "false"
      THEN [allowed |-> FALSE, reason |-> "disabled"]
      ELSE [allowed |-> TRUE,
            reason |-> IF policy = "open" THEN "open" ELSE "allowlisted"]

GroupAccessGateFor(policy, roomMatch) ==
      IF policy = "disabled"
      THEN [allowed |-> FALSE, reason |-> "groupPolicy=disabled"]
      ELSE IF policy = "allowlist" /\ ~roomMatch.hasConfiguredRooms
      THEN [allowed |-> FALSE, reason |-> "groupPolicy=allowlist and no rooms configured"]
      ELSE IF policy = "allowlist" /\ ~roomMatch.allowed
      THEN [allowed |-> FALSE, reason |-> "not allowlisted"]
      ELSE IF roomMatch.roomConfig.enabled = "false"
              \/ roomMatch.wildcardConfig.enabled = "false"
      THEN [allowed |-> FALSE, reason |-> "disabled"]
      ELSE [allowed |-> TRUE,
            reason |-> IF policy = "open" THEN "open" ELSE "allowlisted"]

resolveXmppGroupAccessGate(groupPolicy, roomMatch) ==
  GroupAccessGateFor(IF groupPolicy = "unset" THEN "allowlist" ELSE groupPolicy,
                     roomMatch)

\* requireMention with the wildcard's setting read before the room's
RequireMentionWildcardFirst(roomConfig, wildcardConfig) ==
  IF wildcardConfig.requireMention # "unset" THEN wildcardConfig.requireMention = "true"
  ELSE IF roomConfig.requireMention # "unset" THEN roomConfig.requireMention = "true"
  ELSE TRUE

resolveXmppRequireMention(roomConfig, wildcardConfig) ==
  IF roomConfig.requireMention # "unset" THEN roomConfig.requireMention = "true"
  ELSE IF wildcardConfig.requireMention # "unset" THEN wildcardConfig.requireMention = "true"
  ELSE TRUE

\* the mention gate without the pass for authorized commands
MentionGateWithoutCommandPass(isGroup, requireMention, wasMentioned, hasControlCommand, allowTextCommands, commandAuthorized) ==
  IF ~isGroup THEN [shouldSkip |-> FALSE, reason |-> "direct"]
  ELSE IF ~requireMention THEN [shouldSkip |-> FALSE, reason |-> "mention-not-required"]
  ELSE IF wasMentioned THEN [shouldSkip |-> FALSE, reason |-> "mentioned"]
  ELSE [shouldSkip |-> TRUE, reason |-> "missing-mention"]

resolveXmppMentionGate(isGroup, requireMention, wasMentioned, hasControlCommand, allowTextCommands, commandAuthorized) ==
  IF ~isGroup THEN [shouldSkip |-> FALSE, reason |-> "direct"]
  ELSE IF ~requireMention THEN [shouldSkip |-> FALSE, reason |-> "mention-not-required"]
  ELSE IF wasMentioned THEN [shouldSkip |-> FALSE, reason |-> "mentioned"]
  ELSE IF hasControlCommand /\ allowTextCommands /\ commandAuthorized
  THEN [shouldSkip |-> FALSE, reason |-> "authorized-command"]
  ELSE [shouldSkip |-> TRUE, reason |-> "missing-mention"]

\* the sender check with the account's list consulted before the room's
GroupSenderAllowedOuterFirst(policy, message, outer, inner) ==
  IF Len(outer) > 0 THEN resolveXmppAllowlistMatch(outer, message)
  ELSE IF Len(inner) > 0 THEN resolveXmppAllowlistMatch(inner, message)
  ELSE policy = "open"

GroupSenderAllowedIn(policy, message, outer, inner) ==
  IF Len(inner) > 0 THEN resolveXmppAllowlistMatch(inner, message)
  ELSE IF Len(outer) > 0 THEN resolveXmppAllowlistMatch(outer, message)
  ELSE policy = "open"

resolveXmppGroupSenderAllowed(groupPolicy, message, outerAllowFrom, innerAllowFrom) ==
  GroupSenderAllowedIn(IF groupPolicy = "unset" THEN "allowlist" ELSE groupPolicy,
                       message,
                       normalizeXmppAllowlist(outerAllowFrom),
                       normalizeXmppAllowlist(innerAllowFrom))

(***************************************************************************)
(* monitor.ts: from a message event to an inbound message                  *)
(***************************************************************************)
\* const [roomJid, nickname] = from.split("/"): the first two segments, an
\* absent nickname is the empty string
\* the DM target taken from the split of from, not from its normalized bare JID
InboundTargetUnnormalized(from, type, parts, bareJid) ==
  IF type = "groupchat"
  THEN [isGroup |-> TRUE, target |-> parts[1], senderJid |-> from,
        senderBareJid |-> parts[1],
        senderNickname |-> IF Len(parts) >= 2 THEN parts[2] ELSE <<>>,
        hasNickname |-> Len(parts) >= 2,
        senderResource |-> <<>>]
  ELSE [isGroup |-> FALSE, target |-> parts[1], senderJid |-> from,
        senderBareJid |-> bareJid, senderNickname |-> <<>>,
        hasNickname |-> FALSE,
        senderResource |-> IF Includes(from, "/") THEN parts[2] ELSE <<>>]

\* hasNickname: senderNickname is not undefined (it may be the empty string)
InboundTargetOf(from, type, parts, bareJid) ==
  IF type = "groupchat"
  THEN [isGroup |-> TRUE, target |-> parts[1], senderJid |-> from,
        senderBareJid |-> parts[1],
        senderNickname |-> IF Len(parts) >= 2 THEN parts[2] ELSE <<>>,
        hasNickname |-> Len(parts) >= 2,
        senderResource |-> <<>>]
  ELSE [isGroup |-> FALSE, target |-> bareJid, senderJid |-> from,
        senderBareJid |-> bareJid, senderNickname |-> <<>>,
        hasNickname |-> FALSE,
        senderResource |-> IF Includes(from, "/") THEN parts[2] ELSE <<>>]

resolveXmppInboundTarget(from, type) ==
  InboundTargetOf(from, type, SplitSlash(from), normalizeXmppBareJid(from))

(***************************************************************************)
(* The host runtime (openclaw/plugin-sdk), as inbound.ts consumes it       *)
(***************************************************************************)
IsWordChar(c) ==
  c \in Range(UpperSeq) \cup Range(LowerSeq) \cup Digits \cup {"_"}

\* whether position p (between characters p and p+1 of s) is a \b
WordBoundary(s, p) ==
  (p >= 1 /\ p <= Len(s) /\ IsWordChar(s[p]))
    # (p + 1 >= 1 /\ p + 1 <= Len(s) /\ IsWordChar(s[p + 1]))

\* new RegExp(`\\b${word}\\b[:,]?`, "i").test(s), for a literal word
MatchesWord(s, word) ==
  \E i \in 1..(Len(s) - Len(word) + 1) :
     /\ ToLower(SubSeq(s, i, i + Len(word) - 1)) = ToLower(word)
     /\ WordBoundary(s, i - 1)
     /\ WordBoundary(s, i + Len(word) - 1)

\* core.channel.mentions.matchesMentionPatterns over the configured patterns
matchesMentionPatterns(rawBody, mentionPatterns) ==
  \E i \in DOMAIN mentionPatterns : MatchesWord(rawBody, mentionPatterns[i])

\* core.channel.text.hasControlCommand: the body carries a recognized
\* command prefix
CommandPrefix == <<"/">>
hasControlCommand(rawBody) == StartsWith(rawBody, CommandPrefix)

\* resolveControlCommandGate with one authorizer and access groups in use
\* (commands.useAccessGroups at its default): the command is authorized iff
\* the sender is allowlisted; an unauthorized text command is to be blocked
resolveControlCommandGate(configured, allowed, allowTextCommands, hasCommand) ==
  LET commandAuthorized == configured /\ allowed
  IN  [commandAuthorized |-> commandAuthorized,
       shouldBlock |-> allowTextCommands /\ hasCommand /\ ~commandAuthorized]

(***************************************************************************)
(* inbound.ts: the synchronous decisions of handleXmppInbound              *)
(***************************************************************************)
ResolveDmPolicy(c) == IF c.dmPolicy = "unset" THEN "pairing" ELSE c.dmPolicy

ResolveGroupPolicy(c) ==
  IF c.groupPolicy # "unset" THEN c.groupPolicy
  ELSE IF c.defaultGroupPolicy # "unset" THEN c.defaultGroupPolicy
  ELSE "allowlist"

\* botJid.split("@")[0]
BotLocalpart(c) ==
  LET a == IndexOf(c.jid, "@")
  IN  IF a = 0 THEN c.jid ELSE SubSeq(c.jid, 1, a - 1)

WasMentioned(c, rawBody) ==
  \/ matchesMentionPatterns(rawBody, c.mentionPatterns)
  \/ (BotLocalpart(c) # <<>> /\ MatchesWord(rawBody, BotLocalpart(c)))

\* roomAllowFrom: the matched room's list, else the wildcard's
FirstNonEmpty(directRoomAllowFrom, wildcardRoomAllowFrom) ==
  IF Len(directRoomAllowFrom) > 0 THEN directRoomAllowFrom ELSE wildcardRoomAllowFrom

RoomAllowFrom(roomMatch) ==
  FirstNonEmpty(normalizeXmppAllowlist(roomMatch.roomConfig.allowFrom),
                normalizeXmppAllowlist(roomMatch.wildcardConfig.allowFrom))

\* Verdict with a pairing request for every DM that misses the allowlist
VerdictPairsOnMiss(message, gates) ==
  LET out(verdict, gate, reason) ==
        [verdict |-> verdict, gate |-> gate, reason |-> reason]
  IN  IF message.isGroup /\ ~gates.groupAccess.allowed
      THEN out("drop", "group-access", gates.groupAccess.reason)
      ELSE IF message.isGroup /\ ~gates.senderAllowed
      THEN out("drop", "group-sender", "group sender")
      ELSE IF ~message.isGroup /\ gates.dmPolicy = "disabled"
      THEN out("drop", "dm", "dmPolicy=disabled")
      ELSE IF ~message.isGroup /\ gates.dmPolicy # "open" /\ ~gates.dmAllowed
      THEN out("pair", "dm", "dmPolicy=pairing")
      ELSE IF message.isGroup /\ gates.commandGate.shouldBlock
      THEN out("drop", "command", "control command (unauthorized)")
      ELSE IF gates.mentionGate.shouldSkip
      THEN out("drop", "mention", gates.mentionGate.reason)
      ELSE out("accept", "", gates.mentionGate.reason)

\* Verdict with the allowlist consulted under dmPolicy=open too
VerdictOpenChecksAllowlist(message, gates) ==
  LET out(verdict, gate, reason) ==
        [verdict |-> verdict, gate |-> gate, reason |-> reason]
  IN  IF message.isGroup /\ ~gates.groupAccess.allowed
      THEN out("drop", "group-access", gates.groupAccess.reason)
      ELSE IF message.isGroup /\ ~gates.senderAllowed
      THEN out("drop", "group-sender", "group sender")
      ELSE IF ~message.isGroup /\ gates.dmPolicy = "disabled"
      THEN out("drop", "dm", "dmPolicy=disabled")
      ELSE IF ~message.isGroup /\ ~gates.dmAllowed
      THEN IF gates.dmPolicy = "pairing"
           THEN out("pair", "dm", "dmPolicy=pairing")
           ELSE out("drop", "dm", "dmPolicy=allowlist")
      ELSE IF message.isGroup /\ gates.commandGate.shouldBlock
      THEN out("drop", "command", "control command (unauthorized)")
      ELSE IF gates.mentionGate.shouldSkip
      THEN out("drop", "mention", gates.mentionGate.reason)
      ELSE out("accept", "", gates.mentionGate.reason)

\* Verdict with the block of unauthorized commands applied to DMs, not rooms
VerdictCommandBlockInDms(message, gates) ==
  LET out(verdict, gate, reason) ==
        [verdict |-> verdict, gate |-> gate, reason |-> reason]
  IN  IF message.isGroup /\ ~gates.groupAccess.allowed
      THEN out("drop", "group-access", gates.groupAccess.reason)
      ELSE IF message.isGroup /\ ~gates.senderAllowed
      THEN out("drop", "group-sender", "group sender")
      ELSE IF ~message.isGroup /\ gates.dmPolicy = "disabled"
      THEN out("drop", "dm", "dmPolicy=disabled")
      ELSE IF ~message.isGroup /\ gates.dmPolicy # "open" /\ ~gates.dmAllowed
      THEN IF gates.dmPolicy = "pairing"
           THEN out("pair", "dm", "dmPolicy=pairing")
           ELSE out("drop", "dm", "dmPolicy=allowlist")
      ELSE IF ~message.isGroup /\ gates.commandGate.shouldBlock
      THEN out("drop", "command", "control command (unauthorized)")
      ELSE IF gates.mentionGate.shouldSkip
      THEN out("drop", "mention", gates.mentionGate.reason)
      ELSE out("accept", "", gates.mentionGate.reason)

\* Verdict without the block of unauthorized commands in rooms
VerdictNoCommandBlock(message, gates) ==
  LET out(verdict, gate, reason) ==
        [verdict |-> verdict, gate |-> gate, reason |-> reason]
  IN  IF message.isGroup /\ ~gates.groupAccess.allowed
      THEN out("drop", "group-access", gates.groupAccess.reason)
      ELSE IF message.isGroup /\ ~gates.senderAllowed
      THEN out("drop", "group-sender", "group sender")
      ELSE IF ~message.isGroup /\ gates.dmPolicy = "disabled"
      THEN out("drop", "dm", "dmPolicy=disabled")
      ELSE IF ~message.isGroup /\ gates.dmPolicy # "open" /\ ~gates.dmAllowed
      THEN IF gates.dmPolicy = "pairing"
           THEN out("pair", "dm", "dmPolicy=pairing")
           ELSE out("drop", "dm", "dmPolicy=allowlist")
      ELSE IF gates.mentionGate.shouldSkip
      THEN out("drop", "mention", gates.mentionGate.reason)
      ELSE out("accept", "", gates.mentionGate.reason)

\* The order of the gates: the first NO ends processing with the logged
\* reason; a DM that misses the allowlist under dmPolicy=pairing goes on to
\* the pairing request; what is left is accepted.
Verdict(message, gates) ==
  LET out(verdict, gate, reason) ==
        [verdict |-> verdict, gate |-> gate, reason |-> reason]
  IN  IF message.isGroup /\ ~gates.groupAccess.allowed
      THEN out("drop", "group-access", gates.groupAccess.reason)
      ELSE IF message.isGroup /\ ~gates.senderAllowed
      THEN out("drop", "group-sender", "group sender")
      ELSE IF ~message.isGroup /\ gates.dmPolicy = "disabled"
      THEN out("drop", "dm", "dmPolicy=disabled")
      ELSE IF ~message.isGroup /\ gates.dmPolicy # "open" /\ ~gates.dmAllowed
      THEN IF gates.dmPolicy = "pairing"
           THEN out("pair", "dm", "dmPolicy=pairing")
           ELSE out("drop", "dm", "dmPolicy=allowlist")
      ELSE IF message.isGroup /\ gates.commandGate.shouldBlock
      THEN out("drop", "command", "control command (unauthorized)")
      ELSE IF gates.mentionGate.shouldSkip
      THEN out("drop", "mention", gates.mentionGate.reason)
      ELSE out("accept", "", gates.mentionGate.reason)

\* the answers of the gates, as handleXmppInbound computes them
GatesWithCommandGate(c, message, groupPolicy, roomMatch, rawBody, effectiveAllowFrom, effectiveGroupAllowFrom, commandGate, wasMentioned) ==
  [dmPolicy     |-> ResolveDmPolicy(c),
   groupPolicy  |-> groupPolicy,
   roomMatch    |-> roomMatch,
   groupAccess  |-> resolveXmppGroupAccessGate(groupPolicy, roomMatch),
   senderAllowed |->
     resolveXmppGroupSenderAllowed(groupPolicy, message,
                                   effectiveGroupAllowFrom, RoomAllowFrom(roomMatch)),
   dmAllowed    |-> resolveXmppAllowlistMatch(effectiveAllowFrom, message),
   commandGate  |-> commandGate,
   hasControlCommand |-> hasControlCommand(rawBody),
   wasMentioned |-> wasMentioned,
   requireMention |->
     message.isGroup
       /\ resolveXmppRequireMention(roomMatch.roomConfig, roomMatch.wildcardConfig),
   mentionGate  |->
     resolveXmppMentionGate(message.isGroup,
         message.isGroup
           /\ resolveXmppRequireMention(roomMatch.roomConfig, roomMatch.wildcardConfig),
         wasMentioned, hasControlCommand(rawBody), c.allowTextCommands,
         commandGate.commandAuthorized)]

\* the command gate, over the allowlist of the message's kind
GatesWithAllowlists(c, message, roomMatch, rawBody, effectiveAllowFrom, effectiveGroupAllowFrom, commandAllowFrom) ==
  GatesWithCommandGate(c, message, ResolveGroupPolicy(c), roomMatch, rawBody,
      effectiveAllowFrom, effectiveGroupAllowFrom,
      resolveControlCommandGate(Len(commandAllowFrom) > 0,
          resolveXmppAllowlistMatch(commandAllowFrom, message),
          c.allowTextCommands, hasControlCommand(rawBody)),
      WasMentioned(c, rawBody))

GatesWithLists(c, message, roomMatch, rawBody, effectiveAllowFrom, effectiveGroupAllowFrom) ==
  GatesWithAllowlists(c, message, roomMatch, rawBody,
      effectiveAllowFrom, effectiveGroupAllowFrom,
      IF message.isGroup THEN effectiveGroupAllowFrom ELSE effectiveAllowFrom)

\* the effective allowlists without the pairing store's entries
GatesWithoutStore(c, message, storeAllowList) ==
  GatesWithLists(c, message,
      resolveXmppRoomMatch(c.rooms, message.target),
      Trim(message.text),
      FilterBoolean(normalizeXmppAllowlist(c.allowFrom)),
      FilterBoolean(normalizeXmppAllowlist(c.groupAllowFrom)))

GatesWithStore(c, message, storeAllowList) ==
  GatesWithLists(c, message,
      resolveXmppRoomMatch(c.rooms, message.target),
      Trim(message.text),
      FilterBoolean(normalizeXmppAllowlist(c.allowFrom) \o storeAllowList),
      FilterBoolean(normalizeXmppAllowlist(c.groupAllowFrom) \o storeAllowList))

Gates(c, message, storeAllowFrom) ==
  GatesWithStore(c, message, normalizeXmppAllowlist(storeAllowFrom))

\* What handleXmppInbound decides once readAllowFromStore has answered with
\* storeAllowFrom: the gate that ends processing (and the logged reason), a
\* pairing request, or acceptance.
Decide(c, message, storeAllowFrom) ==
  Verdict(message, Gates(c, message, storeAllowFrom))

(***************************************************************************)
(* The inputs: JIDs, bodies, stanzas and configurations                    *)
(***************************************************************************)
BotJid   == <<"a","@","x">>
BobJid   == <<"b","@","x","/","r">>
BobJid2  == <<"B","@","x","/","q">>
CarolJid == <<"c","@","x">>
RoomJid  == <<"r","@","m","u","c">>
RoomJidUpper == <<"R","@","m","u","c">>
OtherRoomJid == <<"s","@","m","u","c">>
Nick  == <<"n">>
Nick2 == <<"m">>

BodyPlain   == <<"h","i">>
BodyMention == <<"A",":"," ","h","i">>
BodyCommand == <<"/","s">>
BodyCommandMention == <<"/","s"," ","a">>
BodyBlank   == <<" ">>

Stanza(from, type, body) == [from |-> from, type |-> type, body |-> body]

DmStanzas ==
  {Stanza(f, "chat", BodyPlain) : f \in {BobJid, BobJid2, CarolJid}}

GateStanzas ==
  {Stanza(BobJid, "chat", b) : b \in {BodyPlain, BodyCommand}}
  \cup {Stanza(f, "chat", BodyPlain) : f \in {BobJid2, CarolJid}}
  \cup {Stanza(f, "groupchat", b) :
          f \in {RoomJid \o <<"/">> \o Nick, RoomJidUpper \o <<"/">> \o Nick2,
                 OtherRoomJid \o <<"/">> \o Nick},
          b \in {BodyPlain, BodyMention, BodyCommand, BodyCommandMention}}
  \cup {Stanza(BobJid, "chat", BodyBlank)}

BaseConfig ==
  [jid |-> BotJid, dmPolicy |-> "unset", allowFrom |-> <<>>,
   groupPolicy |-> "unset", defaultGroupPolicy |-> "unset",
   groupAllowFrom |-> <<>>, rooms |-> <<>>,
   allowTextCommands |-> TRUE, mentionPatterns |-> <<>>]

DmPolicies == {"unset", "pairing", "allowlist", "open", "disabled"}
GroupPolicies == {"unset", "allowlist", "open", "disabled"}

AllowFromChoices ==
  {<<>>, << <<"x","m","p","p",":","C","@","x","/","r">> >>, <<Star>>}

\* the configurations of the DM pipeline
DmConfigs ==
  {[BaseConfig EXCEPT !.dmPolicy = p, !.allowFrom = a] :
      p \in DmPolicies, a \in AllowFromChoices}

\* the configurations under which DMs interleave: the policies that consult
\* the allowlist or refuse, with and without an allowFrom entry
PairingConfigs ==
  {[BaseConfig EXCEPT !.dmPolicy = p, !.allowFrom = a] :
      p \in {"pairing", "allowlist", "disabled"},
      a \in {<<>>, << <<"x","m","p","p",":","C","@","x","/","r">> >>}}

RoomConfig(requireMention, enabled, allowFrom) ==
  [requireMention |-> requireMention, enabled |-> enabled, allowFrom |-> allowFrom]

RoomConfigChoices ==
  {RoomConfig("unset", "unset", <<>>),
   RoomConfig("false", "unset", <<>>),
   RoomConfig("true", "true", <<>>),
   RoomConfig("unset", "false", <<>>),
   RoomConfig("false", "unset", <<Nick>>),
   RoomConfig("true", "unset", <<Nick2>>)}

RoomEntry(key, config) == [key |-> key, config |-> config]

RoomsChoices ==
  {<<>>}
  \cup {<<RoomEntry(RoomJid, x)>> : x \in RoomConfigChoices}
  \cup {<<RoomEntry(Star, x)>> : x \in RoomConfigChoices}
  \cup {<<RoomEntry(RoomJid, x), RoomEntry(Star, y)>> :
          x \in RoomConfigChoices, y \in RoomConfigChoices}

GroupAllowFromChoices == {<<>>, <<Nick>>, <<Star>>}

\* the configurations of the group gates
GroupConfigs ==
  {[BaseConfig EXCEPT !.groupPolicy = p, !.rooms = r, !.groupAllowFrom = g,
                      !.allowTextCommands = t] :
      p \in GroupPolicies, r \in RoomsChoices, g \in GroupAllowFromChoices,
      t \in BOOLEAN}

\* the approved entries the pairing store may start with
StoreChoices == {<<>>, << <<"b","@","x">> >>}

(***************************************************************************)
(* client.ts: the state connectXmppClient keeps for one connection         *)
(***************************************************************************)
DefaultConnectTimeoutMs == 15000

\* options.connectTimeoutMs || 15000
TimeoutMsOf(options) ==
  IF options.connectTimeoutMs # 0 THEN options.connectTimeoutMs ELSE DefaultConnectTimeoutMs

\* before connectXmppClient is called: no underlying client yet
\*   phase     where the call stands: idle, connecting, returned, rejected
\*   lib       the underlying client: new, connecting, online, offline,
\*             stopping, stopped
\*   isOnline  the flag isReady() answers with
\*   presence  the initial presence: none, pending, sent, failed
\*   signal    options.abortSignal: none, live, aborted
\*   listener  whether the abort listener was added
\*   handled   the stanza events handled, in order
\*   join      the room of autoJoinRooms the online handler stands at, and
\*             its position in joinMucRoom: none, join, iq, done, aborted
\*   trace     what the online handler has done since the last "online"
\*             event, in order: the sends it attempted, its onError calls
\*             and its onOnline call
\*   held      whether the monitor's variable client holds the client
NewConn(options, signal) ==
  [phase |-> "idle", options |-> options, lib |-> "new", isOnline |-> FALSE,
   presence |-> "none", notified |-> FALSE, signal |-> signal, listener |-> FALSE,
   stopCalled |-> FALSE, timer |-> "none", error |-> "", handled |-> <<>>,
   unhandledRejection |-> FALSE, join |-> [room |-> 0, pc |-> "none"], trace |-> <<>>,
   held |-> FALSE]

\* the options the monitor connects with, for an account without rooms to
\* join
MonitorOptions ==
  [jidOk |-> TRUE, connectTimeoutMs |-> 0, onError |-> TRUE, autoJoinRooms |-> <<>>]

\* the monitor's connection once connectXmppClient has returned and the
\* online handler has run
Established ==
  [NewConn(MonitorOptions, "live") EXCEPT
     !.phase = "returned", !.lib = "online", !.isOnline = TRUE, !.presence = "sent",
     !.notified = TRUE, !.listener = TRUE, !.timer = "armed", !.held = TRUE,
     !.join = [room |-> 0, pc |-> "done"],
     !.trace = <<[kind |-> "presence", room |-> 0, ok |-> TRUE, to |-> <<>>],
                 [kind |-> "onOnline", room |-> 0, ok |-> TRUE, to |-> <<>>]>>]

(***************************************************************************)
(* State                                                                   *)
(***************************************************************************)
VARIABLES
  cfg,              \* the resolved account configuration and the host's flags
  allowFromStore,   \* the pairing store: approved entries, in approval order
  pairingRequests,  \* the pairing store: the keys ever upserted
  tasks,            \* the onMessage invocations, in arrival order
  client,           \* the client handed to handleXmppInbound: "live" or "none"
  deliveries,       \* the deliverXmppReply invocations of the dispatcher
  sends,            \* the sendMessageXmpp calls of the outbound adapter
  conn,             \* the connection connectXmppClient made
  calls             \* the calls of the exported pure functions, with results

\* the state outside the inbound handlers
outVars == <<client, deliveries, sends, conn, calls>>

vars == <<cfg, allowFromStore, pairingRequests, tasks, client, deliveries, sends, conn, calls>>

MaxMsgs == 2

\* the inbound message the monitor builds from a message event
BuildMessage(stanza) ==
  LET t == resolveXmppInboundTarget(stanza.from, stanza.type)
  IN  [isGroup |-> t.isGroup, target |-> t.target, senderJid |-> t.senderJid,
       senderBareJid |-> t.senderBareJid, senderNickname |-> t.senderNickname,
       hasNickname |-> t.hasNickname,
       senderResource |-> t.senderResource, text |-> stanza.body]

\* the key of a DM sender in the pairing store
PairingKey(message) == ToLower(message.senderBareJid)

\* account.bareJid, as resolveXmppAccount sets it from the configured jid
AccountBareJid(c) ==
  IF Trim(c.jid) = <<>> THEN <<>> ELSE normalizeXmppBareJid(Trim(c.jid))

\* the monitor's onMessage without its test of the variable client
MonitorHoldsUnchecked(c) == TRUE

\* if (!client) return: the monitor's onMessage goes on only while the
\* monitor holds its client, from the return of connectXmppClient to stop()
MonitorHolds(c) == c.held

\* xmpp.send on the underlying client: it resolves or rejects, and once
\* stop() was called it rejects with a transport-closed error
XmppSendResults(c) == IF c.stopCalled THEN {FALSE} ELSE BOOLEAN

\* the start of a stanza's handling with the inbound activity recorded
\* before the self check
NewTaskActivityFirst(stanza) ==
  LET noEvent == stanza.body = <<>> \/ stanza.from = <<>>
      self    == normalizeXmppBareJid(stanza.from) = AccountBareJid(cfg)
      empty   == Trim(stanza.body) = <<>>
  IN  [stanza |-> stanza,
       message |-> BuildMessage(stanza),
       pc |-> IF noEvent \/ self \/ empty THEN "done" ELSE "read",
       gate |-> IF noEvent THEN "no-event" ELSE IF self THEN "self"
                ELSE IF empty THEN "empty" ELSE "",
       reason |-> "",
       activity |-> ~noEvent,
       pairedAtReceive |-> PairingKey(BuildMessage(stanza)) \in Range(allowFromStore),
       storeReadOk |-> FALSE, storeAllowFrom |-> <<>>,
       upserted |-> FALSE, created |-> FALSE,
       replySent |-> FALSE, replyFailed |-> FALSE,
       recorded |-> FALSE, dispatched |-> FALSE]

\* the start of a stanza's handling with the body tested untrimmed
NewTaskBodyUntrimmed(stanza) ==
  LET noEvent == stanza.body = <<>> \/ stanza.from = <<>>
      self    == normalizeXmppBareJid(stanza.from) = AccountBareJid(cfg)
  IN  [stanza |-> stanza,
       message |-> BuildMessage(stanza),
       pc |-> IF noEvent \/ self THEN "done" ELSE "read",
       gate |-> IF noEvent THEN "no-event" ELSE IF self THEN "self" ELSE "",
       reason |-> "",
       activity |-> ~noEvent /\ ~self,
       pairedAtReceive |-> PairingKey(BuildMessage(stanza)) \in Range(allowFromStore),
       storeReadOk |-> FALSE, storeAllowFrom |-> <<>>,
       upserted |-> FALSE, created |-> FALSE,
       replySent |-> FALSE, replyFailed |-> FALSE,
       recorded |-> FALSE, dispatched |-> FALSE]

\* The synchronous start of one stanza's handling: handleMessageStanza
\* (no event without body or from), the monitor's onMessage (self messages
\* are skipped, inbound activity is recorded) and handleXmppInbound up to its
\* first await, the read of the pairing store.
NewTask(stanza) ==
  LET message == BuildMessage(stanza)
      noEvent == stanza.body = <<>> \/ stanza.from = <<>>
      noClient == ~MonitorHolds(conn)
      self    == normalizeXmppBareJid(stanza.from) = AccountBareJid(cfg)
      empty   == Trim(stanza.body) = <<>>
  IN  [stanza |-> stanza,
       message |-> message,
       pc |-> IF noEvent \/ noClient \/ self \/ empty THEN "done" ELSE "read",
       gate |-> IF noEvent THEN "no-event" ELSE IF noClient THEN "no-client"
                ELSE IF self THEN "self" ELSE IF empty THEN "empty" ELSE "",
       reason |-> "",
       activity |-> ~noEvent /\ ~noClient /\ ~self,
       pairedAtReceive |-> PairingKey(message) \in Range(allowFromStore),
       storeReadOk |-> FALSE,
       storeAllowFrom |-> <<>>,
       upserted |-> FALSE,
       created |-> FALSE,
       replySent |-> FALSE,
       replyFailed |-> FALSE,
       recorded |-> FALSE,
       dispatched |-> FALSE]

(***************************************************************************)
(* Actions                                                                 *)
(***************************************************************************)
\* a message stanza arrives while earlier ones may still be in flight: the
\* stanza handler is async and the emitter does not await it
Receive(stanza) ==
  /\ Len(tasks) < MaxMsgs
  /\ tasks' = Append(tasks, NewTask(stanza))
  /\ UNCHANGED <<cfg, allowFromStore, pairingRequests, outVars>>

\* the first message stanza of a connection arrives
ReceiveFirst(stanza) ==
  /\ tasks = <<>>
  /\ tasks' = <<NewTask(stanza)>>
  /\ UNCHANGED <<cfg, allowFromStore, pairingRequests, outVars>>

\* the handler's state at its next await after the store's answer
AfterRead(task, ok, storeAllowFrom, d) ==
  [task EXCEPT !.storeReadOk = ok,
               !.storeAllowFrom = storeAllowFrom,
               !.gate = d.gate,
               !.reason = IF d.verdict = "drop" THEN d.reason ELSE "",
               !.pc = CASE d.verdict = "drop" -> "done"
                        [] d.verdict = "pair" -> "upsert"
                        [] OTHER -> "record"]

\* readAllowFromStore answers (a failure is caught and read as []), and the
\* handler runs to its next await: a drop, upsertPairingRequest or
\* recordInboundSession
ReadStore(i) ==
  /\ tasks[i].pc = "read"
  /\ \E ok \in BOOLEAN :
       tasks' = [tasks EXCEPT ![i] =
         AfterRead(@, ok, IF ok THEN allowFromStore ELSE <<>>,
                   Decide(cfg, @.message, IF ok THEN allowFromStore ELSE <<>>))]
  /\ UNCHANGED <<cfg, allowFromStore, pairingRequests, outVars>>

\* the pairing store: created is true for the first upsert of a key only
UpsertCreates(key, requests) == key \notin requests

\* Upsert with the pairing reply sent whether or not the request was created
UpsertAlwaysReplies(i) ==
  /\ tasks[i].pc = "upsert"
  /\ pairingRequests' = pairingRequests \cup {PairingKey(tasks[i].message)}
  /\ tasks' = [tasks EXCEPT ![i] =
       [@ EXCEPT !.upserted = TRUE,
                 !.created = UpsertCreates(PairingKey(tasks[i].message), pairingRequests),
                 !.pc = "reply"]]
  /\ UNCHANGED <<cfg, allowFromStore, outVars>>

\* upsertPairingRequest answers: created only for the first upsert of a key;
\* when created the pairing reply is handed to deliverXmppReply. A failure
\* of the store rejects the handler.
Upsert(i) ==
  /\ tasks[i].pc = "upsert"
  /\ \E ok \in BOOLEAN :
       LET key == PairingKey(tasks[i].message)
           created == UpsertCreates(key, pairingRequests)
       IN  IF ok
           THEN /\ pairingRequests' = pairingRequests \cup {key}
                /\ tasks' = [tasks EXCEPT ![i] =
                     [@ EXCEPT !.upserted = TRUE,
                               !.created = created,
                               !.reason = IF created THEN "" ELSE "dmPolicy=pairing",
                               !.pc = IF created THEN "reply" ELSE "done"]]
           ELSE /\ pairingRequests' = pairingRequests
                /\ tasks' = [tasks EXCEPT ![i] = [@ EXCEPT !.pc = "failed"]]
  /\ UNCHANGED <<cfg, allowFromStore, outVars>>

\* PairingReply with a failed send letting the DM through to the session
\* record
PairingReplyFailurePasses(i) ==
  /\ tasks[i].pc = "reply"
  /\ \E ok \in BOOLEAN :
       tasks' = [tasks EXCEPT ![i] =
         [@ EXCEPT !.replySent = ok, !.replyFailed = ~ok,
                   !.reason = IF ok THEN "dmPolicy=pairing" ELSE "",
                   !.pc = IF ok THEN "done" ELSE "record"]]
  /\ UNCHANGED <<cfg, allowFromStore, pairingRequests, outVars>>

\* the send of the pairing reply completes or fails (the failure is caught
\* and logged); either way the DM is dropped
PairingReply(i) ==
  /\ tasks[i].pc = "reply"
  /\ \E ok \in XmppSendResults(conn) :
       tasks' = [tasks EXCEPT ![i] =
         [@ EXCEPT !.replySent = ok, !.replyFailed = ~ok,
                   !.reason = "dmPolicy=pairing", !.pc = "done"]]
  /\ UNCHANGED <<cfg, allowFromStore, pairingRequests, outVars>>

\* recordInboundSession completes
RecordSession(i) ==
  /\ tasks[i].pc = "record"
  /\ tasks' = [tasks EXCEPT ![i] = [@ EXCEPT !.recorded = TRUE, !.pc = "dispatch"]]
  /\ UNCHANGED <<cfg, allowFromStore, pairingRequests, outVars>>

\* dispatchReplyWithBufferedBlockDispatcher has taken the message
Dispatch(i) ==
  /\ tasks[i].pc = "dispatch"
  /\ tasks' = [tasks EXCEPT ![i] = [@ EXCEPT !.dispatched = TRUE, !.pc = "done"]]
  /\ UNCHANGED <<cfg, allowFromStore, pairingRequests, outVars>>

\* the operator approves a pending pairing request: its key joins the
\* store's allow-from entries
Approve(key) ==
  /\ key \in pairingRequests
  /\ key \notin Range(allowFromStore)
  /\ allowFromStore' = Append(allowFromStore, key)
  /\ UNCHANGED <<cfg, pairingRequests, tasks, outVars>>

\* the DM pipeline: stanzas interleave, the operator approves at any time
Init ==
  /\ cfg \in PairingConfigs
  /\ allowFromStore \in StoreChoices
  /\ pairingRequests = {}
  /\ tasks = <<>>
  /\ client = "live"
  /\ deliveries = <<>>
  /\ sends = <<>>
  /\ conn = Established
  /\ calls = <<>>

Next ==
  \/ \E stanza \in DmStanzas : Receive(stanza)
  \/ \E i \in DOMAIN tasks : ReadStore(i)
  \/ \E i \in DOMAIN tasks : Upsert(i)
  \/ \E i \in DOMAIN tasks : PairingReply(i)
  \/ \E i \in DOMAIN tasks : RecordSession(i)
  \/ \E i \in DOMAIN tasks : Dispatch(i)
  \/ \E key \in pairingRequests : Approve(key)

Spec == Init /\ [][Next]_vars

\* the gates: one stanza, over every configuration and store content
InitGates ==
  /\ cfg \in DmConfigs \cup GroupConfigs
  /\ allowFromStore \in StoreChoices
  /\ pairingRequests = {}
  /\ tasks = <<>>
  /\ client = "live"
  /\ deliveries = <<>>
  /\ sends = <<>>
  /\ conn = Established
  /\ calls = <<>>

NextGates ==
  \/ \E stanza \in GateStanzas : ReceiveFirst(stanza)
  \/ \E i \in DOMAIN tasks : ReadStore(i)
  \/ \E i \in DOMAIN tasks : Upsert(i)
  \/ \E i \in DOMAIN tasks : PairingReply(i)
  \/ \E i \in DOMAIN tasks : RecordSession(i)
  \/ \E i \in DOMAIN tasks : Dispatch(i)

SpecGates == InitGates /\ [][NextGates]_vars
(***************************************************************************)
(* Properties                                                              *)
(***************************************************************************)
\* the store has answered and the handler has run its gates
Decided(t) == t.pc # "read" /\ t.gate \notin {"no-event", "self", "empty"}

NoEffect(t) ==
  ~t.upserted /\ ~t.replySent /\ ~t.replyFailed /\ ~t.recorded /\ ~t.dispatched

Accepted(t) == t.pc \in {"record", "dispatch"} \/ t.recorded \/ t.dispatched

Quiescent == \A i \in DOMAIN tasks : tasks[i].pc \in {"done", "failed"}

\* no gate said NO: in a room the group access gate and the sender allowlist
\* allowed, the command gate does not block and the mention gate does not
\* skip; for a DM the DM policy gate allowed
NoGateSaysNo(message, gates) ==
  IF message.isGroup
  THEN /\ gates.groupAccess.allowed
       /\ gates.senderAllowed
       /\ ~gates.commandGate.shouldBlock
       /\ ~gates.mentionGate.shouldSkip
  ELSE /\ gates.dmPolicy # "disabled"
       /\ (gates.dmPolicy = "open" \/ gates.dmAllowed)

\* C1: a message's session is recorded and the message is dispatched only if
\* no gate said NO on the store content its handler read; a NO at any gate
\* ends the handler with no session record and no dispatch.
C1_DispatchOnlyIfNoGateSaysNo ==
  \A i \in DOMAIN tasks :
    LET t == tasks[i]
        ok == NoGateSaysNo(t.message, Gates(cfg, t.message, t.storeAllowFrom))
    IN  /\ Accepted(t) => Decided(t) /\ ok
        /\ (Decided(t) /\ ~ok) =>
             /\ t.pc \in {"done", "upsert", "reply", "failed"}
             /\ ~t.recorded /\ ~t.dispatched

\* a room message that passed all four gates by an authorized command, and
\* was dispatched
C1_Witness ==
  \E i \in DOMAIN tasks :
    /\ tasks[i].message.isGroup
    /\ tasks[i].dispatched
    /\ Gates(cfg, tasks[i].message, tasks[i].storeAllowFrom).mentionGate.reason
         = "authorized-command"
\* the sender is on the effective DM allowlist: allowFrom united with what
\* the handler read from the pairing store
OnEffectiveAllowlist(t) ==
  resolveXmppAllowlistMatch(
    FilterBoolean(normalizeXmppAllowlist(cfg.allowFrom)
                  \o normalizeXmppAllowlist(t.storeAllowFrom)),
    t.message)

\* the DMs awaiting pairing: the handler found the sender off the
\* effective allowlist under dmPolicy=pairing
Unpaired(t) ==
  /\ ~t.message.isGroup
  /\ Decided(t)
  /\ ResolveDmPolicy(cfg) = "pairing"
  /\ ~OnEffectiveAllowlist(t)

UnpairedKeys == {PairingKey(tasks[i].message) : i \in {j \in DOMAIN tasks : Unpaired(tasks[j])}}

RepliesTo(key) ==
  {i \in DOMAIN tasks : tasks[i].replySent /\ PairingKey(tasks[i].message) = key}

FailedFor(key) ==
  {i \in DOMAIN tasks :
     /\ PairingKey(tasks[i].message) = key
     /\ (tasks[i].pc = "failed" \/ tasks[i].replyFailed)}

\* C2 as stated: once the handlers have finished, exactly one pairing reply
\* has been sent to every sender whose DM missed the allowlist under
\* dmPolicy=pairing, and none of those DMs is dispatched.
C2_ExactlyOneReply ==
  /\ \A i \in DOMAIN tasks :
       Unpaired(tasks[i]) => ~tasks[i].recorded /\ ~tasks[i].dispatched
  /\ Quiescent => \A key \in UnpairedKeys : Cardinality(RepliesTo(key)) = 1

\* C2, amended: at most one pairing reply is sent per sender key, only by
\* the handler whose upsert created the request; it is exactly one once the
\* handlers have finished unless the upsert or the send failed for that
\* sender; none of those DMs is recorded or dispatched.
C2_AtMostOneReply ==
  /\ \A i \in DOMAIN tasks :
       Unpaired(tasks[i]) =>
         /\ ~tasks[i].recorded /\ ~tasks[i].dispatched
         /\ tasks[i].pc \in {"upsert", "reply", "done", "failed"}
         /\ tasks[i].replySent => tasks[i].created
  /\ \A key \in UnpairedKeys :
       /\ Cardinality(RepliesTo(key)) <= 1
       /\ (Quiescent /\ FailedFor(key) = {}) => Cardinality(RepliesTo(key)) = 1

\* two finished DMs of one sender (two resources, two letter cases): one
\* pairing reply, the second upsert not created
C2_Witness ==
  \E i, j \in DOMAIN tasks :
    /\ i # j
    /\ tasks[i].stanza.from # tasks[j].stanza.from
    /\ PairingKey(tasks[i].message) = PairingKey(tasks[j].message)
    /\ Unpaired(tasks[i]) /\ Unpaired(tasks[j])
    /\ tasks[i].pc = "done" /\ tasks[j].pc = "done"
    /\ tasks[i].replySent
    /\ tasks[j].upserted /\ ~tasks[j].created /\ ~tasks[j].replySent

\* C3: a DM dropped because dmPolicy=disabled, or because it misses the
\* allowlist under dmPolicy=allowlist, is silent: no pairing request, no
\* reply, no session record, no dispatch.
C3_SilentDrop ==
  /\ ResolveDmPolicy(cfg) \in {"disabled", "allowlist"} => pairingRequests = {}
  /\ \A i \in DOMAIN tasks :
       LET t == tasks[i]
       IN  (/\ ~t.message.isGroup
            /\ Decided(t)
            /\ \/ ResolveDmPolicy(cfg) = "disabled"
               \/ /\ ResolveDmPolicy(cfg) = "allowlist"
                  /\ ~OnEffectiveAllowlist(t))
           => t.pc = "done" /\ t.gate = "dm" /\ NoEffect(t)

\* a DM that missed the allowlist under dmPolicy=allowlist has been dropped
C3_Witness ==
  \E i \in DOMAIN tasks :
    /\ cfg.dmPolicy = "allowlist"
    /\ tasks[i].pc = "done"
    /\ tasks[i].gate = "dm"
    /\ tasks[i].reason = "dmPolicy=allowlist"

\* C4: under dmPolicy=open a DM with a body (non-empty once trimmed) from
\* another sender than the account is never dropped and makes no pairing
\* request: its handler ends with the session recorded and the message
\* dispatched, whatever allowFrom and the pairing store hold.
C4_OpenDispatches ==
  ResolveDmPolicy(cfg) = "open" =>
    /\ pairingRequests = {}
    /\ \A i \in DOMAIN tasks :
         LET t == tasks[i]
         IN  (~t.message.isGroup /\ t.gate \notin {"no-event", "self", "empty"}) =>
               /\ t.gate = ""
               /\ ~t.upserted /\ ~t.replySent
               /\ t.pc \in {"read", "record", "dispatch", "done"}
               /\ t.pc = "done" => t.recorded /\ t.dispatched

\* open with an empty allowFrom: a sender on no list has been dispatched
C4_Witness ==
  \E i \in DOMAIN tasks :
    /\ cfg.dmPolicy = "open"
    /\ cfg.allowFrom = <<>>
    /\ tasks[i].stanza.from = CarolJid
    /\ tasks[i].dispatched

PairingOrAllowlist == ResolveDmPolicy(cfg) \in {"pairing", "allowlist"}

PassedDmGate(t) ==
  /\ t.gate = ""
  /\ ~t.upserted /\ ~t.replySent /\ ~t.replyFailed
  /\ t.pc \in {"record", "dispatch", "done"}
  /\ t.pc = "done" => t.dispatched

\* C5 as stated: a DM received when its sender's bare JID is in the pairing
\* store passes the DM gate under pairing and allowlist and is dispatched,
\* with no pairing request and no pairing reply.
C5_PairedSenderPasses ==
  \A i \in DOMAIN tasks :
    LET t == tasks[i]
    IN  (~t.message.isGroup /\ Decided(t) /\ PairingOrAllowlist /\ t.pairedAtReceive)
          => PassedDmGate(t)

\* C5, amended: ... provided the handler's read of the pairing store
\* succeeded (a failed read is taken as an empty store).
C5_PairedSenderPassesWhenRead ==
  \A i \in DOMAIN tasks :
    LET t == tasks[i]
    IN  (/\ ~t.message.isGroup /\ Decided(t) /\ PairingOrAllowlist
         /\ t.pairedAtReceive /\ t.storeReadOk)
          => PassedDmGate(t)

\* a sender paired by a first DM and approved; the later DM, from another
\* resource and in another letter case, has been dispatched
C5_Witness ==
  \E i \in DOMAIN tasks :
    /\ tasks[i].stanza.from = BobJid2
    /\ PairingKey(tasks[i].message) \in pairingRequests
    /\ tasks[i].pairedAtReceive
    /\ tasks[i].dispatched
\* the group messages the handler has decided on
GroupTasks == {i \in DOMAIN tasks : tasks[i].message.isGroup /\ Decided(tasks[i])}

Dropped(t, gate) == t.pc = "done" /\ t.gate = gate /\ NoEffect(t)

NoRoomsReason == "groupPolicy=allowlist and no rooms configured"

\* C6: with the group policy resolving to allowlist and no rooms configured,
\* every group message, whatever its room and sender, is dropped at the
\* group access gate with the reason
\* "groupPolicy=allowlist and no rooms configured".
C6_NoRoomsDropsAll ==
  (ResolveGroupPolicy(cfg) = "allowlist" /\ cfg.rooms = <<>>) =>
    \A i \in GroupTasks :
      Dropped(tasks[i], "group-access") /\ tasks[i].reason = NoRoomsReason

\* groupPolicy left unset (allowlist by default), no rooms: a group message
\* of an allowlisted sender has been dropped
C6_Witness ==
  \E i \in GroupTasks :
    /\ cfg.groupPolicy = "unset"
    /\ cfg.rooms = <<>>
    /\ cfg.groupAllowFrom = <<Star>>
    /\ tasks[i].gate = "group-access"

\* no key of rooms is the target, is the target but for letter case, or is "*"
NoRoomMatch(rooms, target) ==
  \A i \in DOMAIN rooms :
    rooms[i].key # Star /\ ToLower(rooms[i].key) # ToLower(target)

\* the matched room's config or the wildcard's says enabled=false
SwitchedOff(roomMatch) ==
  \/ (roomMatch.hasRoomConfig /\ roomMatch.roomConfig.enabled = "false")
  \/ (roomMatch.hasWildcardConfig /\ roomMatch.wildcardConfig.enabled = "false")

\* an answer of the gate agrees with a row of a table: the same decision,
\* and the row's reason where the row names one
AgreesWith(answer, allowed, reason) ==
  answer.allowed = allowed /\ (reason # "" => answer.reason = reason)

AccessTable(answer, policy, noMatch, off) ==
  IF policy = "disabled" THEN AgreesWith(answer, FALSE, "")
  ELSE IF policy = "allowlist" /\ noMatch THEN AgreesWith(answer, FALSE, "not allowlisted")
  ELSE IF off THEN AgreesWith(answer, FALSE, "")
  ELSE AgreesWith(answer, TRUE, IF policy = "open" THEN "open" ELSE "allowlisted")

AccessTableWithNoRooms(answer, policy, noRooms, noMatch, off) ==
  IF policy = "allowlist" /\ noRooms THEN AgreesWith(answer, FALSE, NoRoomsReason)
  ELSE AccessTable(answer, policy, noMatch, off)

OwnGroupPolicy == IF cfg.groupPolicy = "unset" THEN "allowlist" ELSE cfg.groupPolicy

AccessGateOf(message) ==
  resolveXmppGroupAccessGate(cfg.groupPolicy, resolveXmppRoomMatch(cfg.rooms, message.target))

\* C7 as stated: the access gate's answer for a group message is this
\* table: disabled denies; allowlist without a room match denies with "not
\* allowlisted"; enabled=false on the matched room or the wildcard denies;
\* what is left is allowed with "open" or "allowlisted".
C7_AccessGateTable ==
  \A i \in GroupTasks :
    AccessTable(AccessGateOf(tasks[i].message), OwnGroupPolicy,
                NoRoomMatch(cfg.rooms, tasks[i].message.target),
                SwitchedOff(resolveXmppRoomMatch(cfg.rooms, tasks[i].message.target)))

\* C7, amended: the same table with one more row: allowlist with no rooms
\* configured at all denies with "groupPolicy=allowlist and no rooms
\* configured"; "not allowlisted" is the reason when rooms are configured
\* and none matches. The handler drops what the gate denies, with the
\* gate's reason.
C7_AccessGateTableWithNoRooms ==
  \A i \in GroupTasks :
    /\ AccessTableWithNoRooms(AccessGateOf(tasks[i].message), OwnGroupPolicy,
                cfg.rooms = <<>>,
                NoRoomMatch(cfg.rooms, tasks[i].message.target),
                SwitchedOff(resolveXmppRoomMatch(cfg.rooms, tasks[i].message.target)))
    /\ ~AccessGateOf(tasks[i].message).allowed =>
         /\ Dropped(tasks[i], "group-access")
         /\ tasks[i].reason = AccessGateOf(tasks[i].message).reason

\* under groupPolicy=open a room matched by its own key is denied because
\* the wildcard entry says enabled=false
C7_Witness ==
  \E i \in GroupTasks :
    /\ cfg.groupPolicy = "open"
    /\ resolveXmppRoomMatch(cfg.rooms, tasks[i].message.target).hasRoomConfig
    /\ resolveXmppRoomMatch(cfg.rooms, tasks[i].message.target).roomConfig.enabled # "false"
    /\ tasks[i].gate = "group-access"
    /\ tasks[i].reason = "disabled"

\* the list a group sender is checked against, and the answer
SenderCheck(message, policy, perRoom, effective) ==
  IF perRoom # <<>> THEN resolveXmppAllowlistMatch(perRoom, message)
  ELSE IF effective # <<>> THEN resolveXmppAllowlistMatch(effective, message)
  ELSE policy = "open"

SenderCheckOf(t) ==
  SenderCheck(t.message, ResolveGroupPolicy(cfg),
      RoomAllowFrom(resolveXmppRoomMatch(cfg.rooms, t.message.target)),
      FilterBoolean(normalizeXmppAllowlist(cfg.groupAllowFrom)
                    \o normalizeXmppAllowlist(t.storeAllowFrom)))

\* C8: a group sender is checked against the room's allowFrom (the matched
\* room's, else the wildcard's) when that list is not empty, otherwise
\* against groupAllowFrom united with the pairing store; with both empty
\* the sender passes only under groupPolicy=open. A message that passed the
\* access gate is dropped at the sender check, before any session record or
\* dispatch, exactly when its sender fails it.
C8_GroupSenderCheck ==
  \A i \in GroupTasks :
    AccessGateOf(tasks[i].message).allowed =>
      /\ SenderCheckOf(tasks[i]) <=> tasks[i].gate # "group-sender"
      /\ ~SenderCheckOf(tasks[i]) => Dropped(tasks[i], "group-sender")

\* a sender on groupAllowFrom but not on the room's own allowFrom has
\* been dropped
C8_Witness ==
  \E i \in GroupTasks :
    /\ tasks[i].message.senderNickname = Nick
    /\ cfg.groupAllowFrom = <<Nick>>
    /\ RoomAllowFrom(resolveXmppRoomMatch(cfg.rooms, tasks[i].message.target)) = <<Nick2>>
    /\ Dropped(tasks[i], "group-sender")
\* a group message that the access, sender and command gates let through
ReachedMentionGate(t, gates) ==
  /\ t.message.isGroup
  /\ Decided(t)
  /\ gates.groupAccess.allowed
  /\ gates.senderAllowed
  /\ ~gates.commandGate.shouldBlock

\* requireMention: the matched room's setting, else the wildcard's, else true
RequireMentionOf(roomMatch) ==
  IF roomMatch.hasRoomConfig /\ roomMatch.roomConfig.requireMention # "unset"
  THEN roomMatch.roomConfig.requireMention = "true"
  ELSE IF roomMatch.hasWildcardConfig /\ roomMatch.wildcardConfig.requireMention # "unset"
  THEN roomMatch.wildcardConfig.requireMention = "true"
  ELSE TRUE

Proceeds(gates) ==
  \/ ~RequireMentionOf(gates.roomMatch)
  \/ gates.wasMentioned
  \/ (gates.hasControlCommand /\ cfg.allowTextCommands
        /\ gates.commandGate.commandAuthorized)

MentionGateHolds(t, gates) ==
  /\ ~t.message.isGroup => t.gate # "mention"
  /\ ReachedMentionGate(t, gates) =>
       /\ Proceeds(gates) <=> (t.gate = "" /\ t.pc \in {"record", "dispatch", "done"})
       /\ ~Proceeds(gates) =>
            Dropped(t, "mention") /\ t.reason = "missing-mention"

\* C9: requireMention is the matched room's setting, else the wildcard's,
\* else true. A group message that reaches the mention gate proceeds when
\* requireMention is false, or the bot was mentioned, or a control command
\* is present, text commands are allowed and the command is authorized;
\* otherwise it is dropped with reason "missing-mention". A DM is never
\* dropped by the mention gate.
C9_MentionGate ==
  \A i \in DOMAIN tasks :
    Decided(tasks[i]) =>
      MentionGateHolds(tasks[i], Gates(cfg, tasks[i].message, tasks[i].storeAllowFrom))

\* the room's own requireMention=false against the wildcard's true: a
\* message without a mention has been dispatched
C9_Witness ==
  \E i \in GroupTasks :
    /\ tasks[i].stanza.body = BodyPlain
    /\ resolveXmppRoomMatch(cfg.rooms, tasks[i].message.target).roomConfig.requireMention
         = "false"
    /\ resolveXmppRoomMatch(cfg.rooms, tasks[i].message.target).wildcardConfig.requireMention
         = "true"
    /\ tasks[i].dispatched

\* a command without a mention, from an allowlisted sender, in a room that
\* requires mentions and is open to the sender
CommandWithoutMention(t, gates) ==
  /\ ReachedMentionGate(t, gates)
  /\ RequireMentionOf(gates.roomMatch)
  /\ gates.hasControlCommand
  /\ gates.commandGate.commandAuthorized
  /\ ~gates.wasMentioned

NotDropped(t) ==
  /\ t.gate = ""
  /\ t.pc \in {"record", "dispatch", "done"}
  /\ t.pc = "done" => t.recorded /\ t.dispatched

UnauthorizedCommand(t, gates) ==
  /\ t.message.isGroup
  /\ Decided(t)
  /\ gates.hasControlCommand
  /\ ~gates.commandGate.commandAuthorized

\* the message passed the access gate and the sender check
PassedSenderCheck(gates) == gates.groupAccess.allowed /\ gates.senderAllowed

\* C11 as stated: in a room, a message with a control command from a sender
\* not authorized for commands is dropped before the session record and the
\* dispatch, and nothing is sent for it.
C11_UnauthorizedCommandDropped ==
  \A i \in DOMAIN tasks :
    UnauthorizedCommand(tasks[i], Gates(cfg, tasks[i].message, tasks[i].storeAllowFrom))
      => tasks[i].pc = "done" /\ tasks[i].gate # "" /\ NoEffect(tasks[i])

BlockedAsCommand(t, gates) ==
  /\ t.pc = "done" /\ t.gate # "" /\ NoEffect(t)
  /\ PassedSenderCheck(gates) =>
       t.gate = "command" /\ t.reason = "control command (unauthorized)"

\* C11, amended: ... when the channel allows text commands. When it does
\* not, the command gate blocks nothing and the message goes on to the
\* mention gate like any other.
C11_UnauthorizedCommandDroppedWhenAllowed ==
  \A i \in DOMAIN tasks :
    UnauthorizedCommand(tasks[i], Gates(cfg, tasks[i].message, tasks[i].storeAllowFrom))
      => IF cfg.allowTextCommands
         THEN BlockedAsCommand(tasks[i],
                               Gates(cfg, tasks[i].message, tasks[i].storeAllowFrom))
         ELSE tasks[i].gate # "command"

\* a sender admitted by the room's own allowFrom, on no account-level list:
\* the command, though it mentions the bot, has been blocked
C11_Witness ==
  \E i \in GroupTasks :
    /\ tasks[i].stanza.body = BodyCommandMention
    /\ cfg.allowTextCommands
    /\ cfg.groupAllowFrom = <<>>
    /\ tasks[i].storeAllowFrom = <<>>
    /\ RoomAllowFrom(resolveXmppRoomMatch(cfg.rooms, tasks[i].message.target)) = <<Nick>>
    /\ tasks[i].pc = "done"
    /\ tasks[i].gate = "command"
(***************************************************************************)
(* The monitor: any stanza the server may hand over                        *)
(***************************************************************************)
BotJidResource == <<"a","@","x","/","o">>
BotJidUpper    == <<"A","@","X","/","p">>
SlashNick      == <<"a","/","b">>
PlainDomainRoom == <<"r","@","x">>
ConferenceRoom == <<"r","@","c","o","n","f","e","r","e","n","c","e">>

\* the from attribute: absent, the account itself, other users, occupants
\* of rooms, a room itself, a nickname with a "/", rooms of a service whose
\* domain names neither "conference" nor "muc"
MonitorFroms ==
  {<<>>, BotJid, BotJidResource, BotJidUpper, BobJid, BobJid2, CarolJid,
   RoomJid, RoomJid \o <<"/">> \o Nick, RoomJid \o <<"/">> \o SlashNick,
   PlainDomainRoom \o <<"/">> \o Nick, ConferenceRoom \o <<"/">> \o Nick}

MonitorStanzas ==
  {Stanza(f, t, b) : f \in MonitorFroms, t \in {"chat", "groupchat", "normal"},
                     b \in {<<>>, BodyBlank, BodyPlain}}

MonitorConfigs ==
  {[BaseConfig EXCEPT !.jid = j, !.dmPolicy = p, !.groupPolicy = "open", !.rooms = r] :
      j \in {BotJid, BotJidResource},
      p \in {"open", "pairing"},
      r \in {<<>>, <<RoomEntry(Star, RoomConfig("false", "unset", <<>>))>>}}

InitMonitor ==
  /\ cfg \in MonitorConfigs
  /\ allowFromStore = <<>>
  /\ pairingRequests = {}
  /\ tasks = <<>>
  /\ client = "live"
  /\ deliveries = <<>>
  /\ sends = <<>>
  /\ conn = Established
  /\ calls = <<>>

NextMonitor ==
  \/ \E stanza \in MonitorStanzas : ReceiveFirst(stanza)
  \/ \E i \in DOMAIN tasks : ReadStore(i)
  \/ \E i \in DOMAIN tasks : Upsert(i)
  \/ \E i \in DOMAIN tasks : PairingReply(i)
  \/ \E i \in DOMAIN tasks : RecordSession(i)
  \/ \E i \in DOMAIN tasks : Dispatch(i)

SpecMonitor == InitMonitor /\ [][NextMonitor]_vars

\* a message event was delivered for the stanza
Delivered(t) == t.stanza.body # <<>> /\ t.stanza.from # <<>>

\* the address without its resource, letter case aside
BareOf(address) == ToLower(SplitFirst(address, "/").before)

FromSelf(t) == BareOf(t.stanza.from) = BareOf(Trim(cfg.jid))

\* the pipeline was not entered: no store read, no gate, no effect
NotInPipeline(t) ==
  /\ t.pc = "done"
  /\ ~t.storeReadOk /\ t.storeAllowFrom = <<>>
  /\ t.reason = ""
  /\ NoEffect(t)

\* C12: a delivered message whose from, without the resource, is the
\* account's bare JID is dropped by the monitor: no inbound activity is
\* recorded, the pipeline is not entered, nothing is dispatched.
C12_SelfMessageDropped ==
  \A i \in DOMAIN tasks :
    (Delivered(tasks[i]) /\ FromSelf(tasks[i])) =>
      /\ tasks[i].gate = "self"
      /\ ~tasks[i].activity
      /\ NotInPipeline(tasks[i])

\* the account's own message, from another resource and in another letter
\* case than the configured jid, has been dropped
C12_Witness ==
  \E i \in DOMAIN tasks :
    /\ cfg.jid = BotJidResource
    /\ tasks[i].stanza.from = BotJidUpper
    /\ tasks[i].stanza.body = BodyPlain
    /\ tasks[i].gate = "self"

\* C13: a stanza with no body or an empty body gives no message event (and
\* no inbound activity); a body that trims to empty ends the pipeline at
\* once. Neither reaches the store read, a gate or the agent.
C13_NoBodyNoPipeline ==
  \A i \in DOMAIN tasks :
    /\ tasks[i].stanza.body = <<>> =>
         tasks[i].gate = "no-event" /\ ~tasks[i].activity
    /\ Trim(tasks[i].stanza.body) = <<>> =>
         /\ tasks[i].gate \in {"no-event", "self", "empty"}
         /\ NotInPipeline(tasks[i])

\* a whitespace-only body from another user: the event was delivered, the
\* inbound activity recorded, and the pipeline returned at once
C13_Witness ==
  \E i \in DOMAIN tasks :
    /\ tasks[i].stanza.body = BodyBlank
    /\ tasks[i].stanza.from = BobJid
    /\ tasks[i].activity
    /\ tasks[i].gate = "empty"
    /\ tasks[i].pc = "done"

\* the monitor built an inbound message for the stanza
Built(t) == Delivered(t) /\ t.gate # "self"

\* C14 as stated: a message built with isGroup true has a room JID as
\* target, has senderNickname set, and
\* senderJid = target + "/" + senderNickname, whatever the from.
C14_GroupMessageShape ==
  \A i \in DOMAIN tasks :
    (Built(tasks[i]) /\ tasks[i].message.isGroup) =>
      /\ isRoomJid(tasks[i].message.target)
      /\ tasks[i].message.hasNickname
      /\ tasks[i].message.senderJid
           = tasks[i].message.target \o <<"/">> \o tasks[i].message.senderNickname

\* C15: a message built with isGroup false has target = senderBareJid, the
\* from address without its resource (local part and domain in lower case).
C15_DirectMessageTarget ==
  \A i \in DOMAIN tasks :
    (Built(tasks[i]) /\ ~tasks[i].message.isGroup) =>
      /\ tasks[i].message.target = tasks[i].message.senderBareJid
      /\ tasks[i].message.target = BareOf(tasks[i].stanza.from)

\* a DM of type normal from an upper-case full JID, dispatched under its
\* lower-case bare JID
C15_Witness ==
  \E i \in DOMAIN tasks :
    /\ tasks[i].stanza.type = "normal"
    /\ tasks[i].stanza.from = BobJid2
    /\ tasks[i].message.target = <<"b","@","x">>
    /\ tasks[i].dispatched
\* the handler of the stanza has completed
Completed(t) == t.pc \in {"done", "failed"}

\* the handler has gone past its store read: it has taken a step of the
\* pipeline
PastStoreRead(t) == t.gate \notin {"no-event", "self", "empty"} /\ t.pc # "read"

\* C16 as stated: the pipeline is serialized in receive order: the handler
\* of a later stanza completes no step (store read, gates, upsert, session
\* record, dispatch) before the handler of every earlier stanza has
\* completed.
C16_SerializedInReceiveOrder ==
  \A i, j \in DOMAIN tasks :
    (i < j /\ PastStoreRead(tasks[j])) => Completed(tasks[i])

(***************************************************************************)
(* send.ts                                                                 *)
(***************************************************************************)
\* the first of to and opts.target that normalizes; the empty string stands
\* for the thrown "Invalid XMPP target"
FirstTarget(fromArg, fromOpt) == IF fromArg # <<>> THEN fromArg ELSE fromOpt

\* resolveTarget falling back to the text of to instead of throwing
ResolveTargetUnchecked(to, optsTarget) ==
  FirstTarget(FirstTarget(normalizeXmppMessagingTarget(to), normalizeXmppMessagingTarget(optsTarget)), Trim(to))

resolveTarget(to, optsTarget) ==
  FirstTarget(normalizeXmppMessagingTarget(to), normalizeXmppMessagingTarget(optsTarget))

ReplyTag(replyTo) == <<"\n","\n","[","r","e","p","l","y",":">> \o replyTo \o <<"]">>

\* the text, trimmed (the texts sent here hold no Markdown table to
\* convert), with the reply tag when opts.replyTo is set
PayloadOf(prepared, replyTo) ==
  IF replyTo # <<>> THEN prepared \o ReplyTag(replyTo) ELSE prepared

\* the message type by the heuristic of the reply path
SendTypeByAtPrefix(target) ==
  IF IncludesText(target, <<"@","m","u","c",".">>) THEN "groupchat" ELSE "chat"

\* isRoomJid(target) ? "groupchat" : "chat"
SendTypeOf(target) ==
  IF isRoomJid(target) THEN "groupchat" ELSE "chat"

\* a call that threw before any stanza was sent
Rejected(error, connection) ==
  [error |-> error, to |-> <<>>, body |-> <<>>, type |-> "", via |-> "",
   connection |-> connection, sent |-> FALSE, recorded |-> FALSE]

\* the send proper: through opts.client when it is ready, else through a
\* transient client that is connected, used and stopped; the outbound
\* activity is recorded after all of it
SendThrough(target, payload, messageType, clientState, io) ==
  IF clientState = "ready"
  THEN IF io.sendOk
       THEN [error |-> "", to |-> target, body |-> payload, type |-> messageType,
             via |-> "live", connection |-> "none", sent |-> TRUE, recorded |-> TRUE]
       ELSE Rejected("send", "none")
  ELSE IF ~io.connectOk THEN Rejected("connect", "failed")
  ELSE IF ~io.sendOk THEN Rejected("send", "open")
  ELSE [error |-> IF io.stopOk THEN "" ELSE "stop",
        to |-> target, body |-> payload, type |-> messageType,
        via |-> "transient", connection |-> IF io.stopOk THEN "closed" ELSE "open",
        sent |-> TRUE, recorded |-> io.stopOk]

SendResolved(target, payload, clientState, io) ==
  IF target = <<>> THEN Rejected("invalid-target", "none")
  ELSE IF Trim(payload) = <<>> THEN Rejected("empty", "none")
  ELSE SendThrough(target, payload, SendTypeOf(target), clientState, io)

\* sendMessageXmpp(to, text, opts) for an account that is configured or not,
\* with the outcomes io of the connect, the send and the stop
sendMessageXmpp(to, text, opts, configured, io) ==
  IF ~configured THEN Rejected("not-configured", "none")
  ELSE SendResolved(resolveTarget(to, opts.target),
                    PayloadOf(Trim(text), opts.replyTo), opts.client, io)

(***************************************************************************)
(* inbound.ts: deliverXmppReply                                            *)
(***************************************************************************)
AttachmentPrefix == <<"A","t","t","a","c","h","m","e","n","t",":"," ">>

\* the reply text, trimmed, and the attachment line of payload.mediaUrl
CombinedOf(text, mediaUrl) ==
  IF Trim(text) # <<>>
  THEN IF mediaUrl # <<>>
       THEN Trim(text) \o <<"\n","\n">> \o AttachmentPrefix \o mediaUrl
       ELSE Trim(text)
  ELSE IF mediaUrl # <<>> THEN AttachmentPrefix \o mediaUrl ELSE <<>>

\* target.includes("@conference.") || target.includes("@muc.")
ReplyTypeOf(target) ==
  IF \/ IncludesText(target, <<"@">> \o Conference \o <<".">>)
     \/ IncludesText(target, <<"@">> \o Muc \o <<".">>)
  THEN "groupchat" ELSE "chat"

\* the reply through the handler's client: sent as it is addressed, no
\* activity recorded
ReplyThroughClient(target, combined, io) ==
  IF io.sendOk
  THEN [error |-> "", to |-> target, body |-> combined, type |-> ReplyTypeOf(target),
        via |-> "live", connection |-> "none", sent |-> TRUE, recorded |-> FALSE]
  ELSE Rejected("send", "none")

\* nothing to say: the function returns before any send
NothingToDeliver ==
  [error |-> "", to |-> <<>>, body |-> <<>>, type |-> "", via |-> "",
   connection |-> "none", sent |-> FALSE, recorded |-> FALSE]

\* through the client when the handler has one, else through sendMessageXmpp
\* for the handler's account, which the monitor found configured
DeliverCombined(target, combined, replyToId, hasClient, io) ==
  IF hasClient THEN ReplyThroughClient(target, combined, io)
  ELSE sendMessageXmpp(target, combined,
                       [target |-> <<>>, replyTo |-> replyToId, client |-> "none"],
                       TRUE, io)

\* deliverXmppReply({payload, target, client}); the status sink is told of
\* the outbound message when the send did not throw
deliverXmppReply(payload, target, hasClient, io) ==
  IF Trim(payload.text) = <<>> /\ payload.mediaUrl = <<>> THEN NothingToDeliver
  ELSE DeliverCombined(target, CombinedOf(payload.text, payload.mediaUrl),
                       payload.replyToId, hasClient, io)

(***************************************************************************)
(* The outbound adapter: one call of sendMessageXmpp                       *)
(***************************************************************************)
ToSubdomain    == <<"b","@","k",".","m","u","c">>
ToConference   == <<"r","@","c","o","n","f","e","r","e","n","c","e",".","y">>
ToNoAt         == <<"b">>

\* the values of to: users and rooms, bare, prefixed and with a resource;
\* "muc" in the local part and inside the domain; and texts that are no JID
\* (empty, no "@", white space inside, no domain)
SendTargets ==
  {CarolJid, RoomJid, ToSubdomain, ToConference,
   <<" ","x","m","p","p",":","B","@","x","/","r"," ">>,
   <<"r","o","o","m",":","R","@","M","U","C","/","n">>,
   <<"m","u","c","@","x">>,
   <<>>, ToNoAt, <<"b"," ","@","x">>, <<"b","@","/","r">>}

SendTexts == {BodyPlain, BodyBlank}

ReplyToId == <<"7">>

SendOptions ==
  [target : {<<>>, BotJid, ToNoAt}, replyTo : {<<>>, ReplyToId},
   client : {"none", "ready", "offline"}]

\* the calls: sendMessageXmpp(to, text, opts) for an account that has its
\* jid and password or lacks one
SendCalls ==
  [to : SendTargets, text : SendTexts, opts : SendOptions, configured : BOOLEAN]

\* what the connection does: connectXmppClient, client.sendMessage and
\* transient.stop each resolve or throw
SendOutcomes == [connectOk : BOOLEAN, sendOk : BOOLEAN, stopOk : BOOLEAN]

\* one call of sendMessageXmpp, run to its end
Send(call, io) ==
  /\ sends = <<>>
  /\ sends' = <<[call |-> call,
                 result |-> sendMessageXmpp(call.to, call.text, call.opts, call.configured, io)]>>
  /\ UNCHANGED <<cfg, allowFromStore, pairingRequests, tasks, client, deliveries, conn, calls>>

InitSend ==
  /\ cfg = BaseConfig
  /\ allowFromStore = <<>>
  /\ pairingRequests = {}
  /\ tasks = <<>>
  /\ client = "none"
  /\ deliveries = <<>>
  /\ sends = <<>>
  /\ conn = NewConn(MonitorOptions, "none")
  /\ calls = <<>>

NextSend == \E call \in SendCalls, io \in SendOutcomes : Send(call, io)

SpecSend == InitSend /\ [][NextSend]_vars

(***************************************************************************)
(* The replies of the dispatcher                                           *)
(***************************************************************************)
MucUserJid     == <<"b","@","m","u","c",".","x","/","r">>
SubdomainRoom  == <<"r","@","k",".","m","u","c">>

\* DMs and room messages, from rooms of every kind of domain
ReplyStanzas ==
  {Stanza(f, "chat", BodyPlain) : f \in {BobJid, BobJid2, MucUserJid}}
  \cup {Stanza(r \o <<"/">> \o Nick, "groupchat", BodyPlain) :
          r \in {RoomJid, RoomJidUpper, SubdomainRoom, <<"r","@","m","u","c",".","x">>,
                 ToConference, PlainDomainRoom}}

\* every sender is let in, or DMs pair first
ReplyConfigs ==
  {[BaseConfig EXCEPT !.dmPolicy = p, !.groupPolicy = "open",
                      !.rooms = <<RoomEntry(Star, RoomConfig("false", "unset", <<>>))>>] :
      p \in {"open", "pairing"}}

\* the payloads the agent hands to deliver
ReplyPayloads ==
  [text : {<<"o","k">>, BodyBlank}, mediaUrl : {<<>>, <<"u">>}, replyToId : {<<>>, ReplyToId}]

DeliveriesOf(i) == {k \in DOMAIN deliveries : deliveries[k].task = i}

\* the dispatcher's deliver callback for the reply to a dispatched message:
\* deliverXmppReply with target = message.target and the handler's client
Deliver(i, payload, io) ==
  /\ tasks[i].dispatched
  /\ DeliveriesOf(i) = {}
  /\ client = "live" => io.sendOk \in XmppSendResults(conn)
  /\ deliveries' = Append(deliveries,
       [task |-> i, payload |-> payload, held |-> conn.held,
        result |-> deliverXmppReply(payload, tasks[i].message.target, client = "live", io)])
  /\ UNCHANGED <<cfg, allowFromStore, pairingRequests, tasks, client, sends, conn, calls>>

InitReply ==
  /\ cfg \in ReplyConfigs
  /\ allowFromStore = <<>>
  /\ pairingRequests = {}
  /\ tasks = <<>>
  /\ client \in {"live", "none"}
  /\ deliveries = <<>>
  /\ sends = <<>>
  /\ conn = Established
  /\ calls = <<>>

NextReply ==
  \/ \E stanza \in ReplyStanzas : ReceiveFirst(stanza)
  \/ \E i \in DOMAIN tasks : ReadStore(i)
  \/ \E i \in DOMAIN tasks : Upsert(i)
  \/ \E i \in DOMAIN tasks : PairingReply(i)
  \/ \E i \in DOMAIN tasks : RecordSession(i)
  \/ \E i \in DOMAIN tasks : Dispatch(i)
  \/ \E i \in DOMAIN tasks, payload \in ReplyPayloads, io \in SendOutcomes : Deliver(i, payload, io)

SpecReply == InitReply /\ [][NextReply]_vars

\* the domain of a bare JID: what follows its first "@"
DomainOfBare(bare) ==
  IF SplitFirst(bare, "@").found THEN SplitFirst(bare, "@").after ELSE bare

\* the domain names a room service
RoomDomain(domain) ==
  IncludesText(domain, Conference) \/ IncludesText(domain, Muc)

\* the calls of sendMessageXmpp that put a stanza on the wire
SentCalls == {k \in DOMAIN sends : sends[k].result.sent}

\* C17: every stanza sendMessageXmpp sends is addressed to the normalized
\* target and has type groupchat exactly when the domain of that target
\* contains "conference" or "muc", and type chat in every other case.
C17_SendTypeByRoomDomain ==
  \A k \in SentCalls :
    LET r == sends[k].result
    IN  /\ r.to = resolveTarget(sends[k].call.to, sends[k].call.opts.target)
        /\ r.type = IF RoomDomain(DomainOfBare(r.to)) THEN "groupchat" ELSE "chat"

\* a stanza sent as groupchat to a room whose domain only contains "muc",
\* and the send was through a transient client
C17_Witness ==
  \E k \in SentCalls :
    /\ sends[k].call.to = ToSubdomain
    /\ sends[k].result.type = "groupchat"
    /\ sends[k].result.via = "transient"

\* the replies that were put on the wire
SentReplies == {k \in DOMAIN deliveries : deliveries[k].result.sent}

\* C18 as stated: every reply to an accepted room message goes to the room's
\* bare JID with type groupchat, every reply to an accepted DM goes to the
\* sender's bare JID with type chat, and a reply through the live client to
\* a JID that isRoomJid accepts has the type sendMessageXmpp would choose.
C18_ReplyTypeByConversation ==
  \A k \in SentReplies :
    LET t == tasks[deliveries[k].task]
        r == deliveries[k].result
    IN  /\ ToLower(r.to) = BareOf(t.stanza.from)
        /\ r.type = IF t.message.isGroup THEN "groupchat" ELSE "chat"
        /\ (r.via = "live" /\ isRoomJid(r.to)) => r.type = SendTypeOf(r.to)

\* the replies to accepted DMs
DirectReplies == {k \in DOMAIN deliveries : ~tasks[deliveries[k].task].message.isGroup}

\* C19 as stated: for an accepted DM answered with one reply the ledger
\* holds the inbound record of the DM, and one outbound record exactly when
\* the reply was sent, through the live client or a transient one; a send
\* that failed records none.
C19_OneOutboundRecordPerSentReply ==
  \A k \in DirectReplies :
    /\ tasks[deliveries[k].task].activity
    /\ deliveries[k].result.recorded = deliveries[k].result.sent

\* the text is no JID: normalizeXmppJid answers undefined
NotAJid(text) == normalizeXmppJid(text) = <<>>

\* the call threw before it touched the network or the ledger
NoTrace(r) == r.connection = "none" /\ ~r.sent /\ ~r.recorded

\* C20 as stated: a call of sendMessageXmpp whose to does not normalize to
\* a valid JID rejects with the invalid-target error, opens no connection,
\* sends no stanza and records no outbound activity.
C20_InvalidToRejected ==
  \A k \in DOMAIN sends :
    NotAJid(sends[k].call.to) =>
      sends[k].result.error = "invalid-target" /\ NoTrace(sends[k].result)

\* C20: for a configured account a call rejects with the invalid-target
\* error, with no connection, no stanza and no outbound record, whenever
\* neither to nor opts.target normalizes to a valid JID; when only
\* opts.target does, the call goes on with opts.target as its target; for an
\* account that is not configured the call rejects before the target is
\* looked at, again with no connection, stanza or record.
C20_UnresolvableTargetRejected ==
  \A k \in DOMAIN sends :
    LET c == sends[k].call
        r == sends[k].result
    IN  /\ (c.configured /\ NotAJid(c.to) /\ NotAJid(c.opts.target)) =>
             r.error = "invalid-target" /\ NoTrace(r)
        /\ (c.configured /\ NotAJid(c.to) /\ ~NotAJid(c.opts.target)) =>
             /\ r.error # "invalid-target"
             /\ r.sent => r.to = normalizeXmppJid(c.opts.target)
        /\ ~c.configured => r.error = "not-configured" /\ NoTrace(r)

\* a call with a ready client whose to has no domain and whose opts.target
\* has no "@" was rejected
C20_Witness ==
  \E k \in DOMAIN sends :
    /\ sends[k].call.configured
    /\ sends[k].call.to = <<"b","@","/","r">>
    /\ sends[k].call.opts.target = ToNoAt
    /\ sends[k].call.opts.client = "ready"
    /\ sends[k].result.error = "invalid-target"

(***************************************************************************)
(* client.ts: connectXmppClient and the events of the underlying client    *)
(***************************************************************************)
ConnOptions ==
  [jidOk : BOOLEAN, connectTimeoutMs : {0, 12000, -1}, onError : BOOLEAN, autoJoinRooms : {<<>>}]

MaxStanzas == 2

OtherVars == <<cfg, allowFromStore, pairingRequests, tasks, client, deliveries, sends, calls>>

\* connectXmppClient up to its await: the jid is split, the handlers and the
\* abort listener are added, start() is called and the timer is set
Connect ==
  /\ conn.phase = "idle"
  /\ conn' = IF ~conn.options.jidOk
             THEN [conn EXCEPT !.phase = "rejected", !.error = "invalid-jid"]
             ELSE [conn EXCEPT !.phase = "connecting", !.lib = "connecting",
                               !.listener = conn.signal # "none",
                               !.timer = IF TimeoutMsOf(conn.options) > 0 THEN "armed" ELSE "none"]
  /\ UNCHANGED OtherVars

\* the timer of the race fires before start() has settled: the call rejects
Timeout ==
  /\ conn.phase = "connecting"
  /\ conn.timer = "armed"
  /\ conn' = [conn EXCEPT !.phase = "rejected", !.error = "timeout", !.timer = "fired"]
  /\ UNCHANGED OtherVars

\* start() rejects (the server refuses): the call rejects
StartFails ==
  /\ conn.phase = "connecting"
  /\ conn.lib = "connecting"
  /\ conn' = [conn EXCEPT !.phase = "rejected", !.error = "start", !.lib = "offline"]
  /\ UNCHANGED OtherVars

\* the "online" event: the flag is set, then the handler awaits the send of
\* the initial presence; start() resolves, and the call returns the client
\* if it is still waiting
Online ==
  /\ conn.lib = "connecting"
  /\ conn' = [conn EXCEPT !.lib = "online", !.isOnline = TRUE, !.presence = "pending",
                          !.phase = IF @ = "connecting" THEN "returned" ELSE @,
                          !.join = [room |-> 0, pc |-> "none"], !.trace = <<>>]
  /\ UNCHANGED OtherVars

\* an entry of the trace of the online handler
Did(kind, room, ok, to) == [kind |-> kind, room |-> room, ok |-> ok, to |-> to]

\* if (options.onOnline) options.onOnline(): the end of the online handler
CallOnOnline(c) ==
  [c EXCEPT !.notified = TRUE, !.join = [room |-> 0, pc |-> "done"],
            !.trace = Append(@, Did("onOnline", 0, TRUE, <<>>))]

\* the for loop over autoJoinRooms goes to the room after room k, and past
\* the last room to onOnline
NextRoom(c, k) ==
  IF k < Len(c.options.autoJoinRooms)
  THEN [c EXCEPT !.join = [room |-> k + 1, pc |-> "join"]]
  ELSE CallOnOnline(c)

\* the send of the initial presence settles: after it the rooms are joined
\* and onOnline is called; a throw rejects the async handler
PresenceDone(ok) ==
  /\ conn.presence = "pending"
  /\ conn' = IF ok
             THEN NextRoom([conn EXCEPT !.presence = "sent",
                                        !.trace = Append(@, Did("presence", 0, TRUE, <<>>))], 0)
             ELSE [conn EXCEPT !.presence = "failed", !.notified = FALSE,
                               !.unhandledRejection = TRUE,
                               !.join = [room |-> 0, pc |-> "aborted"],
                               !.trace = Append(@, Did("presence", 0, FALSE, <<>>))]
  /\ UNCHANGED OtherVars

\* options.resource || "openclaw", for a caller that passes no resource
DefaultResource == <<"o","p","e","n","c","l","a","w">>

\* the catch of the join loop without its try: what joinMucRoom throws
\* rejects the online handler
JoinFailedUncaught(c, k) ==
  [c EXCEPT !.unhandledRejection = TRUE, !.join = [room |-> k, pc |-> "aborted"]]

\* the catch of the join loop: the failure goes to onError when there is
\* one, and the loop goes on
JoinFailed(c, k) ==
  NextRoom(IF c.options.onError
           THEN [c EXCEPT !.trace = Append(@, Did("onError", k, TRUE, <<>>))]
           ELSE c, k)

\* joinMucRoom that returns after the join presence
JoinSentNoConfig(c, k) == NextRoom(c, k)

\* joinMucRoom after its join presence was sent: it waits and goes on to
\* the owner-configuration iq
JoinSent(c, k) == [c EXCEPT !.join = [room |-> k, pc |-> "iq"]]

\* joinMucRoom: the presence to roomJid/nickname settles
JoinPresence(ok) ==
  /\ conn.join.pc = "join"
  /\ LET k == conn.join.room
         to == conn.options.autoJoinRooms[k] \o <<"/">> \o DefaultResource
         tried == [conn EXCEPT !.trace = Append(@, Did("join", k, ok, to))]
     IN  conn' = IF ok THEN JoinSent(tried, k) ELSE JoinFailed(tried, k)
  /\ UNCHANGED OtherVars

\* joinMucRoom: the owner-configuration submit iq to roomJid settles
JoinIq(ok) ==
  /\ conn.join.pc = "iq"
  /\ LET k == conn.join.room
         tried == [conn EXCEPT !.trace = Append(@, Did("iq", k, ok, conn.options.autoJoinRooms[k]))]
     IN  conn' = IF ok THEN NextRoom(tried, k) ELSE JoinFailed(tried, k)
  /\ UNCHANGED OtherVars

\* the "offline" event: the flag is cleared; the underlying client
\* reconnects or stays offline
Offline(reconnect) ==
  /\ conn.lib = "online"
  /\ conn' = [conn EXCEPT !.lib = IF reconnect THEN "connecting" ELSE "offline",
                          !.isOnline = FALSE,
                          !.presence = IF @ = "pending" THEN "failed" ELSE @]
  /\ UNCHANGED OtherVars

\* xmpp.stop() is called on the underlying client
StopUnderlying(c) ==
  [c EXCEPT !.stopCalled = TRUE, !.lib = IF @ = "stopped" THEN @ ELSE "stopping"]

\* the abort signal fires: a listener added before runs and stops the client
Abort ==
  /\ conn.signal = "live"
  /\ conn' = IF conn.listener
             THEN [StopUnderlying(conn) EXCEPT !.signal = "aborted"]
             ELSE [conn EXCEPT !.signal = "aborted"]
  /\ UNCHANGED OtherVars

\* the owner of the returned client calls stop()
Stop ==
  /\ conn.phase = "returned"
  /\ ~conn.stopCalled
  /\ conn' = StopUnderlying(conn)
  /\ UNCHANGED OtherVars

\* the stop() the monitor returns: client?.stop(); client = null
MonitorStop ==
  /\ conn.held
  /\ conn' = [StopUnderlying(conn) EXCEPT !.held = FALSE]
  /\ UNCHANGED OtherVars

\* the stop completes: the stream is closed and "offline" is emitted
Stopped ==
  /\ conn.lib = "stopping"
  /\ conn' = [conn EXCEPT !.lib = "stopped", !.isOnline = FALSE,
                          !.presence = IF @ = "pending" THEN "failed" ELSE @]
  /\ UNCHANGED OtherVars

\* the stanza handler without its try/catch: a throw rejects the listener
HandleStanzaUncaught(c, kind, throws) ==
  [kind |-> kind, threw |-> throws /\ kind # "iq", reported |-> FALSE,
   fatal |-> throws /\ kind # "iq", phase |-> c.phase,
   onlineBefore |-> c.isOnline, onlineAfter |-> c.isOnline /\ ~(throws /\ kind # "iq")]

\* the stanza handler: message and presence stanzas are decoded and handed
\* to their callbacks inside try/catch; what is thrown goes to onError when
\* there is one
HandleStanza(c, kind, throws) ==
  [kind |-> kind, threw |-> throws /\ kind # "iq",
   reported |-> throws /\ kind # "iq" /\ c.options.onError,
   fatal |-> FALSE, phase |-> c.phase,
   onlineBefore |-> c.isOnline, onlineAfter |-> c.isOnline]

\* the "stanza" event
StanzaEvent(kind, throws) ==
  /\ conn.lib = "online"
  /\ Len(conn.handled) < MaxStanzas
  /\ conn' = [conn EXCEPT !.handled = Append(@, HandleStanza(conn, kind, throws)),
                          !.isOnline = HandleStanza(conn, kind, throws).onlineAfter]
  /\ UNCHANGED OtherVars

InitClient ==
  /\ cfg = BaseConfig
  /\ allowFromStore = <<>>
  /\ pairingRequests = {}
  /\ tasks = <<>>
  /\ client = "none"
  /\ deliveries = <<>>
  /\ sends = <<>>
  /\ conn \in {NewConn(o, s) : o \in ConnOptions, s \in {"none", "live"}}
  /\ calls = <<>>

NextClient ==
  \/ Connect
  \/ Timeout
  \/ StartFails
  \/ Online
  \/ \E ok \in BOOLEAN : PresenceDone(ok)
  \/ \E reconnect \in BOOLEAN : Offline(reconnect)
  \/ Abort
  \/ Stop
  \/ Stopped
  \/ \E kind \in {"message", "presence", "iq"}, throws \in BOOLEAN : StanzaEvent(kind, throws)

SpecClient == InitClient /\ [][NextClient]_vars

\* C21 as stated: once connectXmppClient has failed with the timeout error
\* the pending start is cancelled: the underlying client was stopped, is
\* not online, and no stanza is handled after the failure.
C21_TimeoutCancelsStart ==
  conn.error = "timeout" =>
    /\ conn.stopCalled
    /\ ~conn.isOnline
    /\ \A k \in DOMAIN conn.handled : conn.handled[k].phase # "rejected"

\* C22 as stated: whenever the abort signal is aborted, be it before the
\* call of connectXmppClient, while connecting or while online, stop() was
\* invoked on the underlying client, which ends offline with isReady() false.
C22_AbortStops ==
  (conn.signal = "aborted" /\ conn.phase # "idle" /\ conn.options.jidOk) =>
    /\ conn.stopCalled
    /\ conn.lib = "stopped" => ~conn.isOnline

PairingFailed(t) == t.pc = "failed" \/ t.replyFailed

\* C24: when the upsert of the pairing request fails or the send of the
\* pairing reply fails, no pairing reply is delivered and the DM is dropped:
\* its handler ends with no session record and no dispatch, and the handlers
\* of other stanzas go on.
C24_PairingFailureStillDrops ==
  \A i \in DOMAIN tasks :
    PairingFailed(tasks[i]) =>
      /\ tasks[i].pc \in {"failed", "done"}
      /\ ~tasks[i].replySent /\ ~tasks[i].recorded /\ ~tasks[i].dispatched

\* the upsert for the first DM failed, and the DM after it was handled to
\* its end: its own upsert created the request and its reply was sent
C24_Witness ==
  /\ Len(tasks) = 2
  /\ tasks[1].pc = "failed"
  /\ tasks[2].pc = "done" /\ tasks[2].created /\ tasks[2].replySent

\* the gates that say NO
GateNames == {"group-access", "group-sender", "dm", "command", "mention"}

\* C29 as stated: inbound activity is recorded only for messages the gates
\* accept: a message dropped by the group gate, the sender allowlist, the DM
\* gate (pairing included), the command gate or the mention gate has no
\* inbound activity record.
C29_ActivityOnlyIfAccepted ==
  \A i \in DOMAIN tasks :
    (tasks[i].gate \in GateNames /\ ~Accepted(tasks[i])) => ~tasks[i].activity

\* C30 as stated: isReady() is true only in the Online state, entered once
\* the full JID is bound and the initial presence has been sent; it is false
\* in every earlier state and after an offline event.
C30_ReadyOnlyOnline ==
  conn.isOnline => conn.lib = "online" /\ conn.presence = "sent"

(***************************************************************************)
(* accounts.ts                                                             *)
(***************************************************************************)
DefaultAccountId == <<"d","e","f","a","u","l","t">>

\* normalizeAccountId of the host: trimmed and lower-cased, the default id
\* for an absent or blank one
normalizeAccountId(id) ==
  IF Trim(id) = <<>> THEN DefaultAccountId ELSE ToLower(Trim(id))

\* merged.field?.trim(), the empty string when the field is absent
FieldOf(config, field) ==
  IF field \in DOMAIN config THEN Trim(config[field]) ELSE <<>>

\* the accounts entry under the id itself, else under the first key that
\* normalizes to the same id, else nothing
resolveAccountConfig(accounts, accountId) ==
  IF \E k \in DOMAIN accounts : accounts[k].key = accountId
  THEN accounts[CHOOSE k \in DOMAIN accounts : accounts[k].key = accountId].config
  ELSE IF \E k \in DOMAIN accounts : normalizeAccountId(accounts[k].key) = normalizeAccountId(accountId)
  THEN accounts[CHOOSE k \in DOMAIN accounts :
                  /\ normalizeAccountId(accounts[k].key) = normalizeAccountId(accountId)
                  /\ \A j \in 1..(k - 1) :
                       normalizeAccountId(accounts[j].key) # normalizeAccountId(accountId)].config
  ELSE <<>>

\* {...base, ...account}: the account's own fields win
mergeXmppAccountConfig(c, accountId) ==
  resolveAccountConfig(c.accounts, accountId) @@ c.base

\* the trimmed content of the password file, empty when there is no path or
\* the read throws
FilePassword(merged, files) ==
  IF FieldOf(merged, "passwordFile") # <<>> /\ FieldOf(merged, "passwordFile") \in DOMAIN files
  THEN Trim(files[FieldOf(merged, "passwordFile")])
  ELSE <<>>

EnvPassword(accountId, env) ==
  IF accountId = DefaultAccountId THEN Trim(env.XMPP_PASSWORD) ELSE <<>>

\* resolvePassword with the file consulted before the environment
ResolvePasswordFileFirst(accountId, merged, env, files) ==
  IF FilePassword(merged, files) # <<>>
  THEN [password |-> FilePassword(merged, files), source |-> "passwordFile"]
  ELSE IF EnvPassword(accountId, env) # <<>>
  THEN [password |-> EnvPassword(accountId, env), source |-> "env"]
  ELSE IF FieldOf(merged, "password") # <<>>
  THEN [password |-> FieldOf(merged, "password"), source |-> "config"]
  ELSE [password |-> <<>>, source |-> "none"]

resolvePassword(accountId, merged, env, files) ==
  IF EnvPassword(accountId, env) # <<>>
  THEN [password |-> EnvPassword(accountId, env), source |-> "env"]
  ELSE IF FilePassword(merged, files) # <<>>
  THEN [password |-> FilePassword(merged, files), source |-> "passwordFile"]
  ELSE IF FieldOf(merged, "password") # <<>>
  THEN [password |-> FieldOf(merged, "password"), source |-> "config"]
  ELSE [password |-> <<>>, source |-> "none"]

\* the ids of the accounts object: its non-blank keys, normalized
listConfiguredAccountIds(c) ==
  {normalizeAccountId(c.accounts[k].key) :
     k \in {j \in DOMAIN c.accounts : Trim(c.accounts[j].key) # <<>>}}

\* a.localeCompare(b) < 0 for ids of lower-case letters
RECURSIVE LocaleLess(_, _)
LocaleLess(a, b) ==
  IF a = <<>> THEN b # <<>>
  ELSE IF b = <<>> THEN FALSE
  ELSE IF a[1] = b[1] THEN LocaleLess(Tail(a), Tail(b))
  ELSE IndexOf(LowerSeq, a[1]) < IndexOf(LowerSeq, b[1])

\* the default id when it is configured or nothing is, else the first id in
\* sorted order
resolveDefaultXmppAccountId(c) ==
  IF listConfiguredAccountIds(c) = {} \/ DefaultAccountId \in listConfiguredAccountIds(c)
  THEN DefaultAccountId
  ELSE CHOOSE id \in listConfiguredAccountIds(c) :
         \A other \in listConfiguredAccountIds(c) \ {id} : LocaleLess(id, other)

\* the jid of the merged configuration, for the default account else the
\* XMPP_JID of the environment
JidOf(accountId, merged, env) ==
  IF FieldOf(merged, "jid") # <<>> THEN FieldOf(merged, "jid")
  ELSE IF accountId = DefaultAccountId THEN Trim(env.XMPP_JID) ELSE <<>>

TruthyEnv == {<<"t","r","u","e">>, <<"1">>, <<"y","e","s">>, <<"o","n">>}

parseTruthy(value) == value # <<>> /\ ToLower(Trim(value)) \in TruthyEnv

\* Number.parseInt(text, 10) of a text without a sign: the number its
\* leading digits write, -1 (NaN) when it starts with no digit
RECURSIVE LeadingInt(_, _)
LeadingInt(text, parsed) ==
  IF text = <<>> \/ text[1] \notin Digits THEN parsed
  ELSE LeadingInt(Tail(text),
                  (IF parsed < 0 THEN 0 ELSE parsed) * 10
                  + IndexOf(<<"0","1","2","3","4","5","6","7","8","9">>, text[1]) - 1)

\* a port of the environment; 0 stands for undefined
parseIntEnv(value) ==
  IF Trim(value) = <<>> \/ LeadingInt(Trim(value), -1) <= 0 \/ LeadingInt(Trim(value), -1) > 65535
  THEN 0
  ELSE LeadingInt(Trim(value), -1)

\* value.split(/[\n,;]+/g), with the empty pieces a run of separators
\* leaves, which filter(Boolean) drops
RECURSIVE SplitList(_, _)
SplitList(text, piece) ==
  IF text = <<>> THEN <<piece>>
  ELSE IF text[1] \in {"\n", ",", ";"} THEN <<piece>> \o SplitList(Tail(text), <<>>)
  ELSE SplitList(Tail(text), Append(piece, text[1]))

\* the rooms of the environment; the empty list stands for undefined
parseListEnv(value) == FilterBoolean(Map(Trim, SplitList(value, <<>>)))

\* the variable read for every account, the default one or not
DefaultOnlyUnchecked(accountId, value) == value

\* accountId === DEFAULT_ACCOUNT_ID ? process.env.X : undefined
DefaultOnly(accountId, value) ==
  IF accountId = DefaultAccountId THEN value ELSE <<>>

TlsOf(accountId, merged, env) ==
  IF "tls" \in DOMAIN merged THEN merged.tls
  ELSE IF DefaultOnly(accountId, env.XMPP_TLS) # <<>> THEN parseTruthy(env.XMPP_TLS)
  ELSE TRUE

DefaultPort == 5222

PortOf(accountId, merged, env) ==
  IF "port" \in DOMAIN merged THEN merged.port
  ELSE IF parseIntEnv(DefaultOnly(accountId, env.XMPP_PORT)) # 0
  THEN parseIntEnv(DefaultOnly(accountId, env.XMPP_PORT))
  ELSE DefaultPort

HostOf(accountId, merged, env) ==
  IF FieldOf(merged, "host") # <<>> THEN FieldOf(merged, "host")
  ELSE Trim(DefaultOnly(accountId, env.XMPP_HOST))

\* merged.autoJoinRooms ?? envRooms
AutoJoinRoomsOf(accountId, merged, env) ==
  IF "autoJoinRooms" \in DOMAIN merged THEN merged.autoJoinRooms
  ELSE parseListEnv(DefaultOnly(accountId, env.XMPP_ROOMS))

ResolvedWith(accountId, merged, jid, resolution, env) ==
  [accountId |-> accountId, merged |-> merged,
   configured |-> jid # <<>> /\ resolution.password # <<>>,
   jid |-> IF jid # <<>> THEN normalizeXmppBareJid(jid) ELSE <<>>,
   host |-> IF HostOf(accountId, merged, env) # <<>> THEN HostOf(accountId, merged, env)
            ELSE IF jid # <<>>
            THEN SplitFirst(SplitFirst(normalizeXmppBareJid(jid), "@").after, "@").before
            ELSE <<>>,
   port |-> PortOf(accountId, merged, env),
   tls |-> TlsOf(accountId, merged, env),
   autoJoinRooms |-> AutoJoinRoomsOf(accountId, merged, env),
   password |-> resolution.password, passwordSource |-> resolution.source]

\* the closure resolve(accountId) of resolveXmppAccount
ResolveOne(c, accountId) ==
  ResolvedWith(accountId, mergeXmppAccountConfig(c, accountId),
               JidOf(accountId, mergeXmppAccountConfig(c, accountId), c.env),
               resolvePassword(accountId, mergeXmppAccountConfig(c, accountId), c.env, c.files),
               c.env)

\* the choice between the primary resolution and the fallback, without the
\* test of an explicit account id
ChooseAccountUnpinned(explicit, primary, fallback) ==
  IF ~primary.configured /\ fallback.configured THEN fallback ELSE primary

ChooseAccount(explicit, primary, fallback) ==
  IF explicit \/ primary.configured THEN primary
  ELSE IF fallback.accountId = primary.accountId THEN primary
  ELSE IF ~fallback.configured THEN primary
  ELSE fallback

\* resolveXmppAccount({cfg, accountId}); accountId is empty when absent
resolveXmppAccount(c, accountId) ==
  ChooseAccount(Trim(accountId) # <<>>,
                ResolveOne(c, normalizeAccountId(accountId)),
                ResolveOne(c, resolveDefaultXmppAccountId(c)))

(***************************************************************************)
(* The exported pure functions, applied to inputs                          *)
(***************************************************************************)
PasswordFilePath == <<"f">>

\* channels.xmpp without its accounts: nothing, a whole account, a jid
\* alone, a password alone, and a password file beside an inline password
BaseChoices ==
  {<<>>,
   [jid |-> BotJid, password |-> <<" ","p"," ">>],
   [jid |-> BotJid],
   [password |-> <<"p">>],
   [jid |-> BotJid, password |-> <<"p">>, passwordFile |-> PasswordFilePath]}

AccountEntry(key, config) == [key |-> key, config |-> config]

\* channels.xmpp.accounts, as its entries in key order
AccountsChoices ==
  {<<>>,
   <<AccountEntry(<<"w">>, [jid |-> CarolJid, password |-> <<"q">>])>>,
   <<AccountEntry(<<"W">>, [jid |-> CarolJid, host |-> <<"k">>, tls |-> FALSE])>>,
   <<AccountEntry(<<"z">>, [password |-> <<" ">>]),
     AccountEntry(<<"w">>, [jid |-> CarolJid, password |-> <<"q">>])>>,
   <<AccountEntry(DefaultAccountId, [password |-> <<"q">>]),
     AccountEntry(<<"w">>, [jid |-> CarolJid, password |-> <<"q">>])>>}

\* the environment without any of the variables
NoEnv ==
  [XMPP_JID |-> <<>>, XMPP_PASSWORD |-> <<>>, XMPP_HOST |-> <<>>, XMPP_PORT |-> <<>>,
   XMPP_TLS |-> <<>>, XMPP_ROOMS |-> <<>>]

\* the connection variables: a host, a port, TLS off and two rooms
ConnectionEnv ==
  [NoEnv EXCEPT !.XMPP_HOST = <<"h">>, !.XMPP_PORT = <<"5","2","2","3">>,
                !.XMPP_TLS = <<"o","f","f">>,
                !.XMPP_ROOMS = <<"r","@","m","u","c",","," ","s","@","m","u","c",";">>]

EnvChoices ==
  {[NoEnv EXCEPT !.XMPP_JID = j, !.XMPP_PASSWORD = p] :
     j \in {<<>>, <<"e","@","x">>}, p \in {<<>>, <<" ">>, <<" ","s">>}}
  \cup {ConnectionEnv,
        [ConnectionEnv EXCEPT !.XMPP_JID = <<"e","@","x">>, !.XMPP_PASSWORD = <<"s">>,
                              !.XMPP_PORT = <<"9","9","9","9","9">>, !.XMPP_TLS = <<"Y","e","s">>]}

\* the files: none readable, the password file with a password, and blank
FilesChoices ==
  {<<>>, [path \in {PasswordFilePath} |-> <<" ","t"," ">>], [path \in {PasswordFilePath} |-> <<" ">>]}

AccountInputs ==
  [base : BaseChoices, accounts : AccountsChoices, env : EnvChoices, files : FilesChoices]

\* params.accountId: absent, blank, and an id with and without padding
AccountIdChoices == {<<>>, <<" ">>, <<"w">>, <<" ","W"," ">>, <<"z">>}

CallVars == <<cfg, allowFromStore, pairingRequests, tasks, client, deliveries, sends, conn>>

\* one call of resolveXmppAccount
ResolveAccount(c, accountId) ==
  /\ calls = <<>>
  /\ calls' = <<[fn |-> "resolveXmppAccount", arg |-> [cfg |-> c, accountId |-> accountId],
                 result |-> resolveXmppAccount(c, accountId)]>>
  /\ UNCHANGED CallVars

InitCalls ==
  /\ cfg = BaseConfig
  /\ allowFromStore = <<>>
  /\ pairingRequests = {}
  /\ tasks = <<>>
  /\ client = "none"
  /\ deliveries = <<>>
  /\ sends = <<>>
  /\ conn = NewConn(MonitorOptions, "none")
  /\ calls = <<>>


\* the calls of resolveXmppAccount
AccountCalls == {k \in DOMAIN calls : calls[k].fn = "resolveXmppAccount"}

\* the caller pinned the account
Pinned(call) == Trim(call.arg.accountId) # <<>>

PrimaryOf(call) == ResolveOne(call.arg.cfg, normalizeAccountId(call.arg.accountId))

DefaultOf(call) == ResolveOne(call.arg.cfg, resolveDefaultXmppAccountId(call.arg.cfg))

\* C25: resolveXmppAccount answers with the resolution of the default
\* account id exactly when no accountId was given, the primary resolution
\* is not configured (its jid or its password is empty) and the default-id
\* resolution is configured; in every other case, and always when an
\* accountId was given, it answers with the primary resolution.
C25_FallbackToDefault ==
  \A k \in AccountCalls :
    LET call == calls[k]
        primary == PrimaryOf(call)
        falls == ~Pinned(call) /\ ~primary.configured /\ DefaultOf(call).configured
    IN  /\ primary.configured = (primary.jid # <<>> /\ primary.password # <<>>)
        /\ call.result = IF falls THEN DefaultOf(call) ELSE primary
        /\ Pinned(call) => call.result = primary

\* no accountId, nothing configured under the default id, the account "w"
\* configured: the answer is account "w"
C25_Witness ==
  \E k \in AccountCalls :
    /\ ~Pinned(calls[k])
    /\ ~PrimaryOf(calls[k]).configured
    /\ calls[k].result.accountId = <<"w">>
    /\ calls[k].result.configured

\* the password file of the merged configuration can be read and holds
\* more than white space
FileUsable(call) ==
  /\ "passwordFile" \in DOMAIN call.result.merged
  /\ Trim(call.result.merged.passwordFile) \in DOMAIN call.arg.cfg.files
  /\ Trim(call.arg.cfg.files[Trim(call.result.merged.passwordFile)]) # <<>>

InlineUsable(call) ==
  /\ "password" \in DOMAIN call.result.merged
  /\ Trim(call.result.merged.password) # <<>>

\* the password and its source by the precedence env, passwordFile, config,
\* none, given whether the environment counts
ByPrecedence(call, envCounts) ==
  IF envCounts
  THEN [password |-> Trim(call.arg.cfg.env.XMPP_PASSWORD), source |-> "env"]
  ELSE IF FileUsable(call)
  THEN [password |-> Trim(call.arg.cfg.files[Trim(call.result.merged.passwordFile)]),
        source |-> "passwordFile"]
  ELSE IF InlineUsable(call)
  THEN [password |-> Trim(call.result.merged.password), source |-> "config"]
  ELSE [password |-> <<>>, source |-> "none"]

PasswordIs(call, expected) ==
  /\ call.result.password = expected.password
  /\ call.result.passwordSource = expected.source

\* C26 as stated: the password and passwordSource follow the precedence env
\* (default account, XMPP_PASSWORD not empty), passwordFile (readable,
\* trimmed content not empty), inline password (trimmed), none.
C26_PasswordPrecedence ==
  \A k \in AccountCalls :
    PasswordIs(calls[k],
               ByPrecedence(calls[k],
                            /\ calls[k].result.accountId = DefaultAccountId
                            /\ calls[k].arg.cfg.env.XMPP_PASSWORD # <<>>))

\* C26 amended: the environment counts for the default account when
\* XMPP_PASSWORD is not empty after trimming, and the trimmed value is the
\* password; a blank XMPP_PASSWORD falls through to the password file, an
\* unreadable or blank file to the inline password, a blank inline password
\* to the empty password with source none; passwordSource names the source
\* of the returned password.
C26_PasswordPrecedenceTrimmed ==
  \A k \in AccountCalls :
    PasswordIs(calls[k],
               ByPrecedence(calls[k],
                            /\ calls[k].result.accountId = DefaultAccountId
                            /\ Trim(calls[k].arg.cfg.env.XMPP_PASSWORD) # <<>>))

\* the default account with a blank XMPP_PASSWORD and a password file that
\* cannot be read: the inline password is returned, from source config
C26_Witness ==
  \E k \in AccountCalls :
    /\ calls[k].result.accountId = DefaultAccountId
    /\ calls[k].arg.cfg.env.XMPP_PASSWORD = <<" ">>
    /\ "passwordFile" \in DOMAIN calls[k].result.merged
    /\ calls[k].arg.cfg.files = <<>>
    /\ calls[k].result.passwordSource = "config"
    /\ calls[k].result.password = <<"p">>

(***************************************************************************)
(* normalizeXmppJid and normalizeXmppAllowEntry applied to texts           *)
(***************************************************************************)
\* up to three of the prefixes xmpp:, user:, room: in a row
PrefixRuns ==
  UNION {[1..n -> {PrefixXmpp, PrefixUser, PrefixRoom}] : n \in 0..3}

RECURSIVE TextOf(_, _)
TextOf(prefixes, rest) ==
  IF prefixes = <<>> THEN rest ELSE Head(prefixes) \o TextOf(Tail(prefixes), rest)

\* a bare JID, a full JID in upper case, a domain whose resource holds an
\* "@", a domain alone, a padded JID, and a JID without a domain
JidRests ==
  {<<"b","@","x">>, <<"B","@","X","/","r">>, <<"x","/","a","@","b">>, <<"x">>,
   <<" ","b","@","x">>, <<"a","@","/","r">>}

JidTexts == {TextOf(ps, rest) : ps \in PrefixRuns, rest \in JidRests}

AllowRests == {<<"b","@","x">>, <<"B","@","X","/","r">>, Star}

AllowTexts == {TextOf(ps, rest) : ps \in PrefixRuns, rest \in AllowRests}

\* one call of normalizeXmppJid
NormalizeJid(raw) ==
  /\ calls = <<>>
  /\ calls' = <<[fn |-> "normalizeXmppJid", arg |-> raw, result |-> normalizeXmppJid(raw)]>>
  /\ UNCHANGED CallVars

\* normalizeXmppJid called on what the call before it returned
NormalizeJidAgain ==
  /\ Len(calls) = 1
  /\ calls[1].fn = "normalizeXmppJid"
  /\ calls[1].result # <<>>
  /\ calls' = Append(calls, [fn |-> "normalizeXmppJid", arg |-> calls[1].result,
                             result |-> normalizeXmppJid(calls[1].result)])
  /\ UNCHANGED CallVars

\* one call of normalizeXmppAllowEntry
NormalizeAllowEntry(raw) ==
  /\ calls = <<>>
  /\ calls' = <<[fn |-> "normalizeXmppAllowEntry", arg |-> raw, result |-> normalizeXmppAllowEntry(raw)]>>
  /\ UNCHANGED CallVars

\* C27: normalizeXmppJid is idempotent: called on a result it returned (a
\* defined one), it returns that result again, whatever prefixes the first
\* input carried.
C27_NormalizeJidIdempotent ==
  (/\ Len(calls) = 2
   /\ calls[2].fn = "normalizeXmppJid"
   /\ calls[2].arg = calls[1].result)
  => calls[2].result = calls[1].result

\* the second call on the result of an input with several prefixes
C27_Reached ==
  /\ Len(calls) = 2
  /\ calls[2].fn = "normalizeXmppJid"
  /\ StartsWith(calls[1].arg, PrefixXmpp \o PrefixUser)
  /\ calls[2].result = calls[1].result

AllowCalls == {k \in DOMAIN calls : calls[k].fn = "normalizeXmppAllowEntry"}

PrefixRank(prefix) ==
  IF prefix = PrefixXmpp THEN 1 ELSE IF prefix = PrefixUser THEN 2 ELSE 3

\* the prefixes stand in the order xmpp:, user:, room:, none of them twice
InStripOrder(prefixes) ==
  \A i, j \in DOMAIN prefixes : i < j => PrefixRank(prefixes[i]) < PrefixRank(prefixes[j])

\* the lower-cased bare JID of a text, "*" for "*"
LowerBareOf(text) == NormalizeStripped(ToLower(Trim(text)))

\* C28 as stated: "*" is returned as "*", and of an entry that starts with
\* prefixes only the first is removed before the rest is reduced to a
\* lower-cased bare JID.
C28_PrefixStrippedOnce ==
  \A k \in AllowCalls :
    /\ calls[k].arg = Star => calls[k].result = Star
    /\ \A ps \in PrefixRuns \ {<<>>}, rest \in AllowRests :
         calls[k].arg = TextOf(ps, rest) => calls[k].result = LowerBareOf(TextOf(Tail(ps), rest))

\* C28 amended: "*" is returned as "*"; leading prefixes that stand in the
\* order xmpp:, user:, room: are all removed, up to three of them; of two
\* prefixes that do not stand in that order only the first is removed; what
\* is left is reduced to a lower-cased bare JID.
C28_PrefixesStrippedInOrder ==
  \A k \in AllowCalls :
    /\ calls[k].arg = Star => calls[k].result = Star
    /\ \A ps \in PrefixRuns \ {<<>>}, rest \in AllowRests :
         calls[k].arg = TextOf(ps, rest) =>
           /\ InStripOrder(ps) => calls[k].result = LowerBareOf(rest)
           /\ (Len(ps) = 2 /\ ~InStripOrder(ps)) =>
                calls[k].result = LowerBareOf(TextOf(Tail(ps), rest))

\* xmpp:user:room: before a full JID in upper case: all three are removed
C28_Witness ==
  \E k \in AllowCalls :
    /\ calls[k].arg = TextOf(<<PrefixXmpp, PrefixUser, PrefixRoom>>, <<"B","@","X","/","r">>)
    /\ calls[k].result = <<"b","@","x">>

\* the keys of rooms: a room, the same room in upper case, another room
\* and the wildcard
RoomKeys == {RoomJid, RoomJidUpper, OtherRoomJid, Star}

\* a configuration that tells the entry it stands under
ConfigUnder(key) ==
  RoomConfig(IF key = Star THEN "true" ELSE "false", "unset", <<key>>)

\* rooms of up to three entries under different keys, in any order
RoomsInputs ==
  {rooms \in UNION {[1..n -> {RoomEntry(key, ConfigUnder(key)) : key \in RoomKeys}] : n \in 0..3} :
     \A i, j \in DOMAIN rooms : i # j => rooms[i].key # rooms[j].key}

RoomTargets == {RoomJid, RoomJidUpper, <<"R","@","M","U","C">>, Star}

\* one call of resolveXmppRoomMatch
RoomMatch(rooms, target) ==
  /\ calls = <<>>
  /\ calls' = <<[fn |-> "resolveXmppRoomMatch", arg |-> [rooms |-> rooms, target |-> target],
                 result |-> resolveXmppRoomMatch(rooms, target)]>>
  /\ UNCHANGED CallVars

\* resolveXmppAccount called again with the same configuration and account
\* id in another environment
ResolveAccountAgain(env) ==
  /\ Len(calls) = 1
  /\ calls[1].fn = "resolveXmppAccount"
  /\ calls' = Append(calls,
       [fn |-> "resolveXmppAccount",
        arg |-> [calls[1].arg EXCEPT !.cfg.env = env],
        result |-> resolveXmppAccount([calls[1].arg.cfg EXCEPT !.env = env], calls[1].arg.accountId)])
  /\ UNCHANGED CallVars

\* normalizeXmppAllowEntry called on what the call before it returned, as
\* resolveXmppGroupSenderAllowed does with the lists handleXmppInbound
\* normalized
NormalizeAllowEntryAgain ==
  /\ Len(calls) = 1
  /\ calls[1].fn = "normalizeXmppAllowEntry"
  /\ calls' = Append(calls, [fn |-> "normalizeXmppAllowEntry", arg |-> calls[1].result,
                             result |-> normalizeXmppAllowEntry(calls[1].result)])
  /\ UNCHANGED CallVars

NextCalls ==
  \/ \E c \in AccountInputs, accountId \in AccountIdChoices : ResolveAccount(c, accountId)
  \/ \E env \in EnvChoices : ResolveAccountAgain(env)
  \/ \E raw \in JidTexts : NormalizeJid(raw)
  \/ NormalizeJidAgain
  \/ \E raw \in AllowTexts : NormalizeAllowEntry(raw)
  \/ NormalizeAllowEntryAgain
  \/ \E rooms \in RoomsInputs, target \in RoomTargets : RoomMatch(rooms, target)

SpecCalls == InitCalls /\ [][NextCalls]_vars

(***************************************************************************)
(* client.ts: the online handler and its join loop                         *)
(***************************************************************************)
\* options.autoJoinRooms: none, one room, two and three rooms
JoinRoomChoices ==
  {<<>>, <<RoomJid>>, <<RoomJid, OtherRoomJid>>, <<OtherRoomJid, RoomJid, ConferenceRoom>>}

InitJoin ==
  /\ cfg = BaseConfig
  /\ allowFromStore = <<>>
  /\ pairingRequests = {}
  /\ tasks = <<>>
  /\ client = "none"
  /\ deliveries = <<>>
  /\ sends = <<>>
  /\ conn \in {NewConn([MonitorOptions EXCEPT !.onError = o, !.autoJoinRooms = r], "none") :
                 o \in BOOLEAN, r \in JoinRoomChoices}
  /\ calls = <<>>

NextJoin ==
  \/ Connect
  \/ Online
  \/ \E ok \in BOOLEAN : PresenceDone(ok)
  \/ \E ok \in BOOLEAN : JoinPresence(ok)
  \/ \E ok \in BOOLEAN : JoinIq(ok)

SpecJoin == InitJoin /\ [][NextJoin]_vars

\* the positions of the trace where a stanza went out
SentAt == {i \in DOMAIN conn.trace : conn.trace[i].kind \in {"presence", "join", "iq"} /\ conn.trace[i].ok}

SentFor(kind, k) == {i \in SentAt : conn.trace[i].kind = kind /\ conn.trace[i].room = k}

Rooms == conn.options.autoJoinRooms

\* the initial presence is the first stanza out, and the join presence of a
\* room goes to room/nickname before the iq goes to the room
PresenceFirstJoinBeforeIq ==
  /\ \A i \in SentAt : i = 1 \/ (conn.trace[1].kind = "presence" /\ conn.trace[1].ok)
  /\ \A k \in DOMAIN Rooms :
       /\ \A i \in SentFor("join", k) : conn.trace[i].to = Rooms[k] \o <<"/">> \o DefaultResource
       /\ \A i \in SentFor("iq", k) :
            /\ conn.trace[i].to = Rooms[k]
            /\ \E j \in SentFor("join", k) : j < i

\* C31 as stated: the initial presence goes out first, then the rooms in
\* list order, for each the join presence to room/nickname before the
\* owner-configuration iq to the room, and nothing goes out for room k+1
\* before the iq of room k has gone out.
C31_JoinOrder ==
  /\ PresenceFirstJoinBeforeIq
  /\ \A i \in SentAt :
       conn.trace[i].room > 1 => \E j \in SentFor("iq", conn.trace[i].room - 1) : j < i

\* C31 amended: as stated, except that the attempt for room k may end
\* without its iq having gone out, by a send of room k that failed; nothing
\* goes out for room k+1 before the attempt for room k has ended in one of
\* the two ways, and a join presence that went out is followed by the
\* attempt to send the iq.
C31_JoinOrderPerAttempt ==
  /\ PresenceFirstJoinBeforeIq
  /\ \A i \in SentAt :
       conn.trace[i].room > 1 =>
         \E j \in 1..(i - 1) :
           /\ conn.trace[j].room = conn.trace[i].room - 1
           /\ \/ conn.trace[j].kind = "iq"
              \/ conn.trace[j].kind = "join" /\ ~conn.trace[j].ok
  /\ \A k \in DOMAIN Rooms :
       (SentFor("join", k) # {} /\ (conn.join.room # k \/ conn.join.pc # "iq")) =>
         \E j \in DOMAIN conn.trace : conn.trace[j].kind = "iq" /\ conn.trace[j].room = k

\* three rooms: the join presence of the first failed, the second and the
\* third were joined and configured after it
C31_Witness ==
  /\ Len(Rooms) = 3
  /\ conn.join.pc = "done"
  /\ \E j \in DOMAIN conn.trace :
       conn.trace[j].kind = "join" /\ conn.trace[j].room = 1 /\ ~conn.trace[j].ok
  /\ \A k \in {2, 3} : SentFor("join", k) # {} /\ SentFor("iq", k) # {}

\* the positions of the trace where a send for a room failed
FailedAt == {i \in DOMAIN conn.trace : conn.trace[i].kind \in {"join", "iq"} /\ ~conn.trace[i].ok}

OnOnlineAt == {i \in DOMAIN conn.trace : conn.trace[i].kind = "onOnline"}

\* C38: a failure while one room is joined goes to onError (when the caller
\* gave one) and does not end the join loop: once the initial presence is
\* out the handler is never aborted, it reaches its end with every room of
\* autoJoinRooms attempted, and onOnline is called once, as the last thing.
C38_JoinFailureNotFatal ==
  /\ \A i \in FailedAt :
       /\ conn.join.pc # "aborted"
       /\ conn.options.onError =>
            /\ i + 1 \in DOMAIN conn.trace
            /\ conn.trace[i + 1].kind = "onError" /\ conn.trace[i + 1].room = conn.trace[i].room
  /\ \A i \in OnOnlineAt :
       /\ i = Len(conn.trace)
       /\ conn.join.pc = "done"
       /\ \A k \in DOMAIN Rooms :
            \E j \in 1..(i - 1) : conn.trace[j].kind = "join" /\ conn.trace[j].room = k
  /\ Cardinality(OnOnlineAt) = IF conn.join.pc = "done" THEN 1 ELSE 0
  /\ conn.join.pc \in {"join", "iq"} => conn.join.room \in DOMAIN Rooms

\* the iq of the first of three rooms failed and was reported; the two
\* rooms after it were attempted and onOnline was called
C38_Witness ==
  /\ Len(Rooms) = 3
  /\ conn.options.onError
  /\ \E i \in FailedAt : conn.trace[i].kind = "iq" /\ conn.trace[i].room = 1
  /\ \A k \in {2, 3} : \E j \in DOMAIN conn.trace : conn.trace[j].kind = "join" /\ conn.trace[j].room = k
  /\ OnOnlineAt = {Len(conn.trace)}

\* C32 as stated: sendMessageXmpp sends through the supplied client when it
\* is ready and opens no connection then; otherwise it opens a transient
\* client, and every transient client that was opened has had its stop()
\* called when the call ends, also when the send through it failed.
C32_TransientAlwaysStopped ==
  \A k \in DOMAIN sends :
    /\ (sends[k].call.opts.client = "ready" /\ sends[k].result.sent) =>
         (sends[k].result.via = "live" /\ sends[k].result.connection = "none")
    /\ (sends[k].call.opts.client # "ready" /\ sends[k].result.sent) =>
         sends[k].result.via = "transient"
    /\ sends[k].result.connection = "open" => sends[k].result.error = "stop"

(***************************************************************************)
(* The monitor stopped while messages arrive and are handled               *)
(***************************************************************************)
\* the reply of the agent, and whether its send resolves
StopPayload == [text |-> <<"o","k">>, mediaUrl |-> <<>>, replyToId |-> <<>>]

StopOutcomes == {io \in SendOutcomes : io.connectOk /\ io.stopOk}

InitStop ==
  /\ cfg \in ReplyConfigs
  /\ allowFromStore = <<>>
  /\ pairingRequests = {}
  /\ tasks = <<>>
  /\ client = "live"
  /\ deliveries = <<>>
  /\ sends = <<>>
  /\ conn = Established
  /\ calls = <<>>

NextStop ==
  \/ \E stanza \in ReplyStanzas : ReceiveFirst(stanza)
  \/ \E i \in DOMAIN tasks : ReadStore(i)
  \/ \E i \in DOMAIN tasks : Upsert(i)
  \/ \E i \in DOMAIN tasks : PairingReply(i)
  \/ \E i \in DOMAIN tasks : RecordSession(i)
  \/ \E i \in DOMAIN tasks : Dispatch(i)
  \/ \E i \in DOMAIN tasks, io \in StopOutcomes : Deliver(i, StopPayload, io)
  \/ MonitorStop
  \/ Stopped

SpecStop == InitStop /\ [][NextStop]_vars

\* a message event that arrives in this step starts no pipeline
StartsNothing ==
  Len(tasks') > Len(tasks) =>
    /\ tasks'[Len(tasks')].gate \in {"no-event", "no-client"}
    /\ tasks'[Len(tasks')].pc = "done"
    /\ ~tasks'[Len(tasks')].activity

\* no pairing reply and no reply of the agent goes out in this step
SendsNoReply ==
  /\ \A i \in DOMAIN tasks : tasks'[i].replySent = tasks[i].replySent
  /\ \A k \in DOMAIN deliveries' \ DOMAIN deliveries : ~deliveries'[k].result.sent

\* C33: once the monitor's stop() has been called, a message event starts
\* no inbound pipeline (no activity record, no policy evaluation, no pairing
\* request, no dispatch), and no reply goes out for a message whose handling
\* was in flight at the stop: the sends of its pairing reply or of its
\* agent reply fail.
C33_NothingAfterStop ==
  [][~conn.held => (StartsNothing /\ SendsNoReply)]_vars

\* the monitor was stopped while a message was on its way to the agent; the
\* message was dispatched and the send of its reply failed
C33_Witness ==
  /\ ~conn.held
  /\ \E k \in DOMAIN deliveries :
       /\ ~deliveries[k].held
       /\ deliveries[k].result.error = "send"
       /\ ~deliveries[k].result.sent

RoomMatchCalls == {k \in DOMAIN calls : calls[k].fn = "resolveXmppRoomMatch"}

\* the entries of rooms a target can match: under the key itself, under a
\* key that is equal when case is ignored, and under "*"
ExactAt(rooms, target) == {i \in DOMAIN rooms : rooms[i].key = target}

IgnoringCaseAt(rooms, target) == {i \in DOMAIN rooms : ToLower(rooms[i].key) = ToLower(target)}

WildcardAt(rooms) == {i \in DOMAIN rooms : rooms[i].key = Star}

\* C34: resolveXmppRoomMatch takes the entry under the exact key, else the
\* first entry whose key is equal ignoring case, else the wildcard:
\* roomConfig is set by the first two only, wildcardConfig is the "*" entry
\* whenever rooms has one, and the match is not allowed only when none of
\* the three applies.
C34_RoomMatchOrder ==
  \A k \in RoomMatchCalls :
    LET rooms == calls[k].arg.rooms
        target == calls[k].arg.target
        exact == ExactAt(rooms, target)
        loose == IgnoringCaseAt(rooms, target)
        wild == WildcardAt(rooms)
        r == calls[k].result
    IN  /\ r.allowed = (exact # {} \/ loose # {} \/ wild # {})
        /\ r.hasRoomConfig = (exact # {} \/ loose # {})
        /\ exact # {} => \E i \in exact : r.roomConfig = rooms[i].config
        /\ (exact = {} /\ loose # {}) =>
             \E i \in loose : r.roomConfig = rooms[i].config /\ \A j \in loose : i <= j
        /\ r.hasWildcardConfig = (wild # {})
        /\ wild # {} => \E i \in wild : r.wildcardConfig = rooms[i].config

\* rooms holds the room in upper case before the room itself and a "*"
\* entry: the entry under the exact key is the roomConfig, the "*" entry the
\* wildcardConfig
C34_Witness ==
  \E k \in RoomMatchCalls :
    /\ calls[k].arg.target = RoomJid
    /\ Len(calls[k].arg.rooms) = 3
    /\ calls[k].arg.rooms[1].key = RoomJidUpper
    /\ calls[k].result.roomConfig = ConfigUnder(RoomJid)
    /\ calls[k].result.wildcardConfig = ConfigUnder(Star)

\* C35: the environment reaches the default account only: for an account
\* id other than default, two calls of resolveXmppAccount that differ in
\* nothing but XMPP_JID, XMPP_PASSWORD, XMPP_HOST, XMPP_PORT, XMPP_TLS and
\* XMPP_ROOMS give the same result.
C35_EnvDefaultOnly ==
  (/\ Len(calls) = 2
   /\ calls[2].fn = "resolveXmppAccount"
   /\ normalizeAccountId(calls[1].arg.accountId) # DefaultAccountId)
  => calls[2].result = calls[1].result

\* account "w", resolved without any variable and with all six set: the
\* same configured account both times
C35_Witness ==
  /\ Len(calls) = 2
  /\ calls[2].fn = "resolveXmppAccount"
  /\ calls[1].arg.accountId = <<"w">>
  /\ calls[1].arg.cfg.env = NoEnv
  /\ calls[2].arg.cfg.env.XMPP_JID # <<>> /\ calls[2].arg.cfg.env.XMPP_HOST # <<>>
  /\ calls[2].result = calls[1].result
  /\ calls[1].result.configured

(***************************************************************************)
(* A room reflects the replies the account posts into it                   *)
(***************************************************************************)
\* the room sends a groupchat reply of the account back to every occupant,
\* the account included, from the room JID / the nickname the account
\* joined with (its resource)
Reflect(k) ==
  /\ deliveries[k].result.sent
  /\ deliveries[k].result.type = "groupchat"
  /\ Len(tasks) = deliveries[k].task
  /\ Len(tasks) < MaxMsgs
  /\ tasks' = Append(tasks, NewTask(Stanza(deliveries[k].result.to \o <<"/">> \o DefaultResource,
                                           "groupchat", deliveries[k].result.body)))
  /\ UNCHANGED <<cfg, allowFromStore, pairingRequests, outVars>>

InitEcho ==
  /\ cfg \in ReplyConfigs
  /\ allowFromStore = <<>>
  /\ pairingRequests = {}
  /\ tasks = <<>>
  /\ client = "live"
  /\ deliveries = <<>>
  /\ sends = <<>>
  /\ conn = Established
  /\ calls = <<>>

NextEcho ==
  \/ \E stanza \in ReplyStanzas : ReceiveFirst(stanza)
  \/ \E i \in DOMAIN tasks : ReadStore(i)
  \/ \E i \in DOMAIN tasks : Upsert(i)
  \/ \E i \in DOMAIN tasks : PairingReply(i)
  \/ \E i \in DOMAIN tasks : RecordSession(i)
  \/ \E i \in DOMAIN tasks : Dispatch(i)
  \/ \E i \in DOMAIN tasks, io \in StopOutcomes : Deliver(i, StopPayload, io)
  \/ \E k \in DOMAIN deliveries : Reflect(k)

SpecEcho == InitEcho /\ [][NextEcho]_vars

\* C36 as stated: a groupchat message the room reflects from the account's
\* own occupant (room JID / the account's nickname) is never dispatched to
\* the agent.
C36_OwnReflectionNotDispatched ==
  \A i \in DOMAIN tasks :
    (tasks[i].message.isGroup /\ tasks[i].message.senderNickname = DefaultResource) =>
      ~tasks[i].dispatched

(***************************************************************************)
(* The group sender check and the pairing store                            *)
(***************************************************************************)
\* the bare JIDs an approval may add to the pairing store
ApprovedJids == {<<"b","@","x">>, <<"c","@","x">>}

\* the group sender check of a handler that read storeAllowFrom
SenderAllowedWith(message, storeAllowFrom) ==
  Gates(cfg, message, storeAllowFrom).senderAllowed

\* C37: group-sender acceptance is monotone in the pairing store: a group
\* message whose sender the check accepts with the store's entries is still
\* accepted when one more bare JID is in the store.
C37_StoreMonotone ==
  \A i \in DOMAIN tasks :
    (tasks[i].message.isGroup /\ tasks[i].pc \notin {"read", "done"})
      => \A jid \in ApprovedJids :
           SenderAllowedWith(tasks[i].message, tasks[i].storeAllowFrom)
             => SenderAllowedWith(tasks[i].message, Append(tasks[i].storeAllowFrom, jid))

(***************************************************************************)
(* Allowlists normalized once and twice                                    *)
(***************************************************************************)
\* the senders an allowlist is matched against: a direct message's and a
\* room occupant's
MatchedSenders ==
  {NewTask(stanza).message :
     stanza \in {Stanza(BobJid, "chat", BodyPlain),
                 Stanza(RoomJid \o <<"/">> \o Nick, "groupchat", BodyPlain)}}

\* C40: normalizeXmppAllowEntry is idempotent: an entry normalized once (the
\* DM path) and the same entry normalized a second time (the group path)
\* are the same entry, and lists of them match the same senders.
C40_AllowEntryIdempotent ==
  (/\ Len(calls) = 2
   /\ calls[2].fn = "normalizeXmppAllowEntry"
   /\ calls[2].arg = calls[1].result)
  => /\ calls[2].result = calls[1].result
     /\ \A message \in MatchedSenders :
          resolveXmppAllowlistMatch(normalizeXmppAllowlist(<<calls[1].result>>), message)
            = resolveXmppAllowlistMatch(<<calls[1].result>>, message)

(***************************************************************************)
(* client.ts: PresenceTracker                                              *)
(***************************************************************************)
\* presences is the Map's entries in insertion order; an entry holds the key
\* and the available flag (status, show, priority and lastSeen are carried
\* along and never read by isAvailable)
MaxEvents == 3

\* event.type; "" stands for a presence stanza without a type
PresenceTypes ==
  {"", "unavailable", "probe", "subscribe", "subscribed", "unsubscribe",
   "unsubscribed", "error"}

PresenceFroms == {BobJid, BobJid2, CarolJid}

PresenceEvent(from, type) == [from |-> from, type |-> type]

\* Map.prototype.set: an existing key keeps its place
MapSet(presences, bareJid, available) ==
  IF \E i \in DOMAIN presences : presences[i].jid = bareJid
  THEN [i \in DOMAIN presences |->
          IF presences[i].jid = bareJid
          THEN [jid |-> bareJid, available |-> available] ELSE presences[i]]
  ELSE Append(presences, [jid |-> bareJid, available |-> available])

\* handlePresence with every type but unavailable read as available
HandlePresenceAnyType(presences, event) ==
  MapSet(presences, normalizeXmppBareJid(event.from), event.type # "unavailable")

handlePresence(presences, event) ==
  IF event.type = "unavailable"
  THEN MapSet(presences, normalizeXmppBareJid(event.from), FALSE)
  ELSE IF event.type = "" \/ event.type = "probe"
  THEN MapSet(presences, normalizeXmppBareJid(event.from), TRUE)
  ELSE presences

\* this.presences.get(bareJid)?.available ?? false
isAvailable(presences, jid) ==
  \E i \in DOMAIN presences :
    presences[i].jid = normalizeXmppBareJid(jid) /\ presences[i].available

\* the tracker's Map after the calls made so far
Presences == IF calls = <<>> THEN <<>> ELSE calls[Len(calls)].presences

HandlePresence(event) ==
  /\ Len(calls) < MaxEvents
  /\ calls' = Append(calls, [fn |-> "handlePresence", event |-> event,
                             presences |-> handlePresence(Presences, event)])
  /\ UNCHANGED CallVars

\* clear(): this.presences.clear()
ClearPresences ==
  /\ Len(calls) < MaxEvents
  /\ calls' = Append(calls, [fn |-> "clear", event |-> PresenceEvent(<<>>, ""),
                             presences |-> <<>>])
  /\ UNCHANGED CallVars

NextPresence ==
  \/ \E from \in PresenceFroms, type \in PresenceTypes :
       HandlePresence(PresenceEvent(from, type))
  \/ ClearPresences

SpecPresence == InitCalls /\ [][NextPresence]_vars

\* the Map before call i
PresencesBefore(i) == IF i = 1 THEN <<>> ELSE calls[i - 1].presences

\* the events for a bare JID since the last clear(), by kind
EventsSinceClear(bareJid, types) ==
  {i \in DOMAIN calls :
     /\ calls[i].fn = "handlePresence"
     /\ BareOf(calls[i].event.from) = bareJid
     /\ calls[i].event.type \in types
     /\ \A k \in i..Len(calls) : calls[k].fn # "clear"}

\* an available event for the bare JID that no unavailable one follows
LastSeenAvailable(bareJid) ==
  \E i \in EventsSinceClear(bareJid, {"", "probe"}) :
    \A k \in EventsSinceClear(bareJid, {"unavailable"}) : k < i

\* C39: isAvailable(j) is true exactly when the most recent event for bare(j)
\* without a type or with type probe came after the most recent unavailable
\* one (false when none was seen, and after clear()); an event of another
\* type leaves the tracker unchanged; an event for one bare JID changes no
\* other JID's entry.
C39_PresenceTracker ==
  /\ \A jid \in PresenceFroms :
       isAvailable(Presences, jid) = LastSeenAvailable(BareOf(jid))
  /\ \A i \in DOMAIN calls :
       calls[i].fn = "handlePresence"
         => /\ calls[i].event.type \notin {"", "probe", "unavailable"}
                 => calls[i].presences = PresencesBefore(i)
            /\ \A k \in DOMAIN PresencesBefore(i) :
                 PresencesBefore(i)[k].jid # BareOf(calls[i].event.from)
                   => calls[i].presences[k] = PresencesBefore(i)[k]

\* b@x went unavailable, came back under another resource and in other
\* letter case, and then asked for a subscription
C39_Witness ==
  /\ Len(calls) = 3
  /\ calls[1].event = PresenceEvent(BobJid, "unavailable")
  /\ calls[2].event = PresenceEvent(BobJid2, "probe")
  /\ calls[3].event = PresenceEvent(BobJid, "subscribe")
  /\ isAvailable(Presences, BobJid)
  /\ ~isAvailable(Presences, CarolJid)
====
